---- MODULE Spec2Model ----
(***************************************************************************)
(* Entropy-guided compression planning of trash-compactor: the directory   *)
(* walker (iter_files), the plan builder (plan_compression), the           *)
(* high-entropy directory filter with its ancestor-dominance pass, the     *)
(* entropy sampler and the dry run.                                        *)
(*                                                                         *)
(* A path is the sequence of its parts; Path.parent drops the last part    *)
(* and the filesystem root <<>> is its own parent.  A file is a record     *)
(* [dir, name]: its parent directory and its index in that directory.      *)
(***************************************************************************)
EXTENDS Integers, Sequences, FiniteSets, TLC

\* ------------------------------------------------------------------ bounds
\* Files held by the base directory; every other directory holds one.
RootFiles == 2

\* ------------------------------------------------------------ the file tree
base_dir == <<"r">>

Parent(p) == IF Len(p) = 0 THEN p ELSE SubSeq(p, 1, Len(p) - 1)

\* The directories of the tree in listing order (depth, then name).
DirOrder == << <<"r">>, <<"r", "a">>, <<"r", "b">>, <<"r", "a", "c">> >>

Dirs == {DirOrder[i] : i \in 1..Len(DirOrder)}

\* os.scandir(d): the subdirectories of d, and the regular files of d.
SubDirSeq(d) == SelectSeq(DirOrder, LAMBDA e : e # d /\ Parent(e) = d)

SubDirs(d) == {e \in Dirs : e # d /\ Parent(e) = d}

NumFiles(d) == IF d = base_dir THEN RootFiles ELSE 1

FileSeq(d) == [i \in 1..NumFiles(d) |-> [dir |-> d, name |-> i]]

Files == {[dir |-> d, name |-> i] : d \in Dirs, i \in 1..RootFiles} \cap
         {f \in [dir : Dirs, name : 1..RootFiles] : f.name <= NumFiles(f.dir)}

\* compression_module.REPORTABLE_DIRECTORY_MIN_BYTES.
REPORTABLE_DIRECTORY_MIN_BYTES == 5 * 1024 * 1024

\* st_size of a file: small ones, and one large enough to make its
\* directory reportable.
FileSize(f) ==
    IF f.dir = <<"r", "b">> THEN REPORTABLE_DIRECTORY_MIN_BYTES
    ELSE 512 * (Len(f.dir) + f.name - 1)

\* d is e or a descendant of e.
IsUnder(d, e) == Len(e) <= Len(d) /\ SubSeq(d, 1, Len(e)) = e

Range(s) == {s[i] : i \in 1..Len(s)}

RECURSIVE Flatten(_)
Flatten(ss) == IF Len(ss) = 0 THEN <<>> ELSE Head(ss) \o Flatten(Tail(ss))

RECURSIVE Reverse(_)
Reverse(s) == IF Len(s) = 0 THEN <<>> ELSE Append(Reverse(Tail(s)), Head(s))

RECURSIVE SumSizes(_)
SumSizes(s) == IF Len(s) = 0 THEN 0 ELSE FileSize(Head(s)) + SumSizes(Tail(s))

\* -------------------------------------------------------------- config.py
\* `average_entropy is None`: the sampler's "no average".
None == 0 - 1

\* savings_from_entropy: the estimated savings percentage of an average
\* entropy in bits per byte; non-increasing, 90 at 0 bits and 0 at 8 bits.
savings_from_entropy(average_entropy) == ((8 - average_entropy) * 90) \div 8

\* What sample_directory_entropy can return for a directory: no average and
\* nothing sampled, or an average with the files and bytes it covers.
SampleResults ==
    { [average_entropy |-> None, sampled_files |-> 0, sampled_bytes |-> 0],
      [average_entropy |-> 8, sampled_files |-> 1, sampled_bytes |-> 512],
      [average_entropy |-> 8, sampled_files |-> 1, sampled_bytes |-> 1024],
      [average_entropy |-> 4, sampled_files |-> 2, sampled_bytes |-> 2048] }

VARIABLES
    pc,                   \* position of the run
    system_dirs,          \* directories should_skip_directory denies
    unreadable,           \* directories whose listing raises OSError
    has_callback,         \* iter_files: skipped_file_callback is not None
    collect_entropy,      \* iter_files: collect_entropy
    min_savings_percent,  \* the threshold handed to the core
    stack,                \* iter_files: stack
    yielded,              \* the files iter_files yielded, in order
    pruned,               \* the files passed to skipped_file_callback, in order
    pruned_bytes,         \* the bytes the callback added up
    decision,             \* the DirectoryDecision each consulted directory got
    listed,               \* directories iter_files listed with os.scandir
    pushed,               \* directories iter_files ever put on the stack
    directory_skips,      \* stats.directory_skips
    file_skips,           \* stats.file_skips
    skipped_files,        \* stats.skipped_files
    errors,               \* stats.errors
    total_original_size,  \* stats.total_original_size
    entropy_samples,      \* stats.entropy_samples
    entropy_directories_sampled,          \* stats.entropy_directories_sampled
    entropy_directories_below_threshold,  \* stats.entropy_directories_below_threshold
    entry,                \* the entry point running: compress_directory or entropy_dry_run
    files,                \* plan_compression: files (all_files of the caller)
    processed,            \* plan_compression: processed
    ordered_candidates,   \* plan_compression: ordered_candidates
    candidates,           \* the candidates handed to the entropy filter
    plan,                 \* the list plan_compression returns
    directories,          \* _filter_high_entropy_directories: directories
    root_skip_record,     \* _filter_high_entropy_directories: root_skip_record
    evaluated,            \* directories whose evaluation has completed
    skip_results,         \* evaluate_directories_parallel: skip_results
    sample_results,       \* evaluate_directories_parallel: sample_results
    skipped_directories,  \* _filter_high_entropy_directories: skipped_directories
    entropy_calls,        \* per directory: the sample_directory_entropy calls the filter
                          \* made for it, without and with its subdirectories
    verbosity,            \* the verbosity level of the run
    eligible_directories, \* entropy_dry_run: eligible_directories
    eligible_files_found, \* entropy_dry_run: eligible_files_found
    direct_file_bytes,    \* entropy_dry_run: direct_file_bytes (0 where absent)
    ordered_dirs,         \* entropy_dry_run: ordered_dirs
    children_map,         \* entropy_dry_run: children_map (empty where absent)
    directories_to_sample,  \* entropy_dry_run: directories_to_sample
    raw_samples,          \* entropy_dry_run: raw_samples
    entropy_projected_original_bytes,    \* stats.entropy_projected_original_bytes
    entropy_projected_compressed_bytes,  \* stats.entropy_projected_compressed_bytes
    sample_tree,          \* the sampled directory: sizes of its own files and of a subdirectory's
    sample_call,          \* the arguments of the sample_directory_entropy call under way
    sample_list,          \* sample_directory_entropy: files, after the shuffle
    sample_index,         \* sample_directory_entropy: files consumed by the loop
    root_files_skipped,   \* sample_directory_entropy: root_files_skipped
    sample_count,         \* sample_directory_entropy: sampled_files
    sample_bytes,         \* sample_directory_entropy: sampled_bytes
    weighted_entropy,     \* sample_directory_entropy: weighted_entropy
    sample_result,        \* what sample_directory_entropy returned, <<>> before
    sample_retries,       \* the calls sample_directory_entropy made of itself
    sample_faults,        \* the directories whose listing raises OSError, and the
                          \* directories whose first file's entry.stat() does
    sample_reads,         \* what _sample_file_entropy returned for each file of the loop,
                          \* and whether it met an OSError
    reservoir_pending,    \* _reservoir_sample_files: pending
    reservoir_entries,    \* _reservoir_sample_files: the entries of current still to visit
    reservoir,            \* _reservoir_sample_files: reservoir, the (key, path) pairs of the heap
    weighed,              \* the files _reservoir_sample_files drew a key for, in order
    window_call,          \* the arguments of the _plan_sample_windows call under way
    windows_planned,      \* what _plan_sample_windows returned, <<>> before
    args,                 \* main: the parsed command line (min_savings, whether it was given,
                          \* whether a directory was given)
    caller_input,         \* the min_savings_percent the caller last supplied
    stats_min_savings_percent,  \* stats.min_savings_percent
    single_worker,        \* main: args.single_worker
    cpu_info,             \* config.get_cpu_info(): physical and logical cores, 0 for unknown
    worker_cap,           \* workers: the process-wide worker cap, None when unset
    directory_list,       \* evaluate_directories_parallel: directory_list
    executor,             \* the ThreadPoolExecutor of the call: none, running or shutdown
    task_state,           \* per directory: its evaluation is none, queued, running,
                          \* finished or gathered
    task_runs,            \* per directory: evaluations of it that were started
    future_result,        \* per directory: what its finished evaluation holds
    processed_count,      \* evaluate_directories_parallel: processed_count
    progress_calls        \* the calls progress_callback received, in order

env_vars == <<system_dirs, unreadable, has_callback, collect_entropy>>

iter_vars == <<stack, yielded, pruned, pruned_bytes, decision, listed, pushed>>

scan_stats_vars == <<file_skips, skipped_files, errors, total_original_size>>

entropy_stats_vars == <<entropy_samples, entropy_directories_sampled,
                        entropy_directories_below_threshold>>

scan_vars == <<files, processed, ordered_candidates>>

filter_vars == <<directories, root_skip_record, evaluated, skip_results, sample_results,
                 skipped_directories, entropy_calls>>

observer_vars == <<eligible_directories, eligible_files_found, direct_file_bytes>>

dry_vars == <<verbosity, observer_vars, ordered_dirs, children_map, directories_to_sample,
              raw_samples, entropy_projected_original_bytes,
              entropy_projected_compressed_bytes>>

reservoir_vars == <<reservoir_pending, reservoir_entries, reservoir, weighed>>

window_vars == <<window_call, windows_planned>>

sampler_vars == <<sample_tree, sample_call, sample_list, sample_index, root_files_skipped,
                  sample_count, sample_bytes, weighted_entropy, sample_result,
                  sample_retries, sample_faults, sample_reads, reservoir_vars, window_vars>>

cli_vars == <<args, caller_input, stats_min_savings_percent>>

pool_vars == <<single_worker, cpu_info, worker_cap, directory_list, executor, task_state,
               task_runs, future_result, processed_count, progress_calls>>

aux_vars == <<sampler_vars, cli_vars, pool_vars>>

plan_vars == <<scan_stats_vars, entropy_stats_vars, entry, aux_vars, scan_vars,
               candidates, plan, filter_vars, dry_vars>>

vars == <<pc, env_vars, min_savings_percent, iter_vars, directory_skips, plan_vars>>

\* --------------------------------------------------------- skip_logic.py
\* _relative_to_base(path, base): the parts below the base, "." for the base.
_relative_to_base(path) ==
    IF path = base_dir THEN <<".">> ELSE SubSeq(path, Len(base_dir) + 1, Len(path))

\* evaluate_entropy_directory with the threshold comparison turned around.
evaluate_entropy_directory_inverted(directory, s, min_savings) ==
    IF directory = base_dir THEN <<>>
    ELSE IF s.average_entropy = None \/ s.sampled_files = 0 \/ s.sampled_bytes < 1024
    THEN <<>>
    ELSE IF savings_from_entropy(s.average_entropy) < min_savings THEN <<>>
    ELSE << [path |-> directory,
             relative_path |-> _relative_to_base(directory),
             reason |-> <<"High entropy", savings_from_entropy(s.average_entropy)>>,
             category |-> "high_entropy",
             average_entropy |-> s.average_entropy,
             estimated_savings |-> savings_from_entropy(s.average_entropy),
             sampled_files |-> s.sampled_files,
             sampled_bytes |-> s.sampled_bytes] >>

\* evaluate_entropy_directory with `estimated_savings > min_savings_percent`
\* as the test that returns None.
evaluate_entropy_directory_at_threshold(directory, s, min_savings) ==
    IF directory = base_dir THEN <<>>
    ELSE IF s.average_entropy = None \/ s.sampled_files = 0 \/ s.sampled_bytes < 1024
    THEN <<>>
    ELSE IF savings_from_entropy(s.average_entropy) > min_savings THEN <<>>
    ELSE << [path |-> directory,
             relative_path |-> _relative_to_base(directory),
             reason |-> <<"High entropy", savings_from_entropy(s.average_entropy)>>,
             category |-> "high_entropy",
             average_entropy |-> s.average_entropy,
             estimated_savings |-> savings_from_entropy(s.average_entropy),
             sampled_files |-> s.sampled_files,
             sampled_bytes |-> s.sampled_bytes] >>

\* The skip record of evaluate_entropy_directory for a directory whose sample
\* is s, <<>> for its None: the base, a sample that is not evaluable and
\* savings at or above the threshold give no record.
evaluate_entropy_directory(directory, s, min_savings) ==
    IF directory = base_dir THEN <<>>
    ELSE IF s.average_entropy = None \/ s.sampled_files = 0 \/ s.sampled_bytes < 1024
    THEN <<>>
    ELSE IF savings_from_entropy(s.average_entropy) >= min_savings THEN <<>>
    ELSE << [path |-> directory,
             relative_path |-> _relative_to_base(directory),
             reason |-> <<"High entropy", savings_from_entropy(s.average_entropy)>>,
             category |-> "high_entropy",
             average_entropy |-> s.average_entropy,
             estimated_savings |-> savings_from_entropy(s.average_entropy),
             sampled_files |-> s.sampled_files,
             sampled_bytes |-> s.sampled_bytes] >>

\* The record maybe_skip_directory appends for a denied system directory.
SystemSkipRecord(directory) ==
    [path |-> directory,
     relative_path |-> _relative_to_base(directory),
     reason |-> <<"Excluded system directory", 0>>,
     category |-> "system",
     average_entropy |-> None,
     estimated_savings |-> None,
     sampled_files |-> 0,
     sampled_bytes |-> 0]

\* The outcomes of maybe_skip_directory: the records it appends to
\* stats.directory_skips, none when it allows the directory and one when it
\* denies it (a system directory; or, with collect_entropy, a directory
\* whose entropy evaluation returns a record).
maybe_skip_directory(directory, collect, min_savings) ==
    IF directory \in system_dirs THEN { <<SystemSkipRecord(directory)>> }
    ELSE IF ~collect THEN { <<>> }
    ELSE { evaluate_entropy_directory(directory, s, min_savings) : s \in SampleResults }

\* The DirectorySkipRecords appended for the directories of ds, in order.
SkipRecords(ds, o) == Flatten([i \in 1..Len(ds) |-> o[ds[i]]])

\* ------------------------------------------------- compression_planner.py
_traverse_skipped_flat(root) == IF root \in unreadable THEN <<>> ELSE FileSeq(root)

\* os.walk(root) of _traverse_skipped: every file of every listable directory
\* under root, top-down.
RECURSIVE _traverse_skipped(_)
_traverse_skipped(root) ==
    IF root \in unreadable THEN <<>>
    ELSE FileSeq(root)
         \o Flatten([i \in 1..Len(SubDirSeq(root)) |->
                        _traverse_skipped(SubDirSeq(root)[i])])

\* The files the callback receives for the denied directories of ds.
PrunedFiles(ds, o) ==
    LET denied == SelectSeq(ds, LAMBDA e : Len(o[e]) > 0)
    IN Flatten([i \in 1..Len(denied) |-> _traverse_skipped(denied[i])])

valid_dirs_all(ds, o) == ds

\* valid_dirs of iter_files: the subdirectories whose decision is not skip.
valid_dirs(ds, o) == SelectSeq(ds, LAMBDA e : Len(o[e]) = 0)

DecisionOf(o) == IF Len(o) = 0 THEN "allow" ELSE o[1].category

\* iter_files up to the loop: the root's own decision.
WalkRoot ==
    /\ pc = "walk_root"
    /\ \E o \in maybe_skip_directory(base_dir, collect_entropy, min_savings_percent) :
         LET ov == [e \in {base_dir} |-> o]
         IN /\ decision' = [decision EXCEPT ![base_dir] = DecisionOf(o)]
            /\ directory_skips' = directory_skips \o o
            /\ IF Len(o) > 0
               THEN /\ pruned' = IF has_callback
                                 THEN pruned \o PrunedFiles(<<base_dir>>, ov)
                                 ELSE pruned
                    /\ pruned_bytes' = IF has_callback
                                       THEN pruned_bytes + SumSizes(PrunedFiles(<<base_dir>>, ov))
                                       ELSE pruned_bytes
                    /\ pc' = "walk_done"
                    /\ UNCHANGED <<stack, pushed>>
               ELSE /\ stack' = <<base_dir>>
                    /\ pushed' = pushed \cup {base_dir}
                    /\ pc' = "walk_loop"
                    /\ UNCHANGED <<pruned, pruned_bytes>>
    /\ UNCHANGED <<env_vars, min_savings_percent, yielded, listed, plan_vars>>

\* One iteration of the while loop whose os.scandir raises OSError.
WalkUnreadable ==
    /\ pc = "walk_loop"
    /\ Len(stack) > 0
    /\ stack[Len(stack)] \in unreadable
    /\ stack' = SubSeq(stack, 1, Len(stack) - 1)
    /\ UNCHANGED <<pc, env_vars, min_savings_percent, yielded, pruned, pruned_bytes,
                   decision, listed, pushed, directory_skips, plan_vars>>

\* One iteration of the while loop: list, yield the files, decide the
\* subdirectories, push the admitted ones.
WalkDir ==
    /\ pc = "walk_loop"
    /\ Len(stack) > 0
    /\ LET current_dir == stack[Len(stack)]
           dirs == SubDirSeq(current_dir)
           outcomes == UNION {maybe_skip_directory(e, collect_entropy, min_savings_percent) :
                                 e \in SubDirs(current_dir)}
       IN /\ current_dir \notin unreadable
          /\ \E o \in [SubDirs(current_dir) -> outcomes] :
               /\ \A e \in SubDirs(current_dir) :
                     o[e] \in maybe_skip_directory(e, collect_entropy, min_savings_percent)
               /\ listed' = listed \cup {current_dir}
               /\ yielded' = yielded \o FileSeq(current_dir)
               /\ decision' = [e \in Dirs |-> IF e \in SubDirs(current_dir)
                                              THEN DecisionOf(o[e]) ELSE decision[e]]
               /\ directory_skips' = directory_skips \o SkipRecords(dirs, o)
               /\ pruned' = IF has_callback THEN pruned \o PrunedFiles(dirs, o) ELSE pruned
               /\ pruned_bytes' = IF has_callback
                                  THEN pruned_bytes + SumSizes(PrunedFiles(dirs, o))
                                  ELSE pruned_bytes
               /\ stack' = SubSeq(stack, 1, Len(stack) - 1) \o Reverse(valid_dirs(dirs, o))
               /\ pushed' = pushed \cup Range(valid_dirs(dirs, o))
    /\ UNCHANGED <<pc, env_vars, min_savings_percent, plan_vars>>

\* The stack is empty: the generator is exhausted.
WalkEnd ==
    /\ pc = "walk_loop"
    /\ Len(stack) = 0
    /\ pc' = "walk_done"
    /\ UNCHANGED <<env_vars, min_savings_percent, iter_vars, directory_skips, plan_vars>>

\* The thresholds the core runs with: _setup_context hands it a clamped one.
Thresholds == {0, 45, 90}

\* iter_files has not run.
IterIdle ==
    /\ stack = <<>>
    /\ yielded = <<>>
    /\ pruned = <<>>
    /\ pruned_bytes = 0
    /\ decision = [d \in Dirs |-> "none"]
    /\ listed = {}
    /\ pushed = {}

\* The filter has sampled no directory.
NoEntropyCalls == entropy_calls = [d \in Dirs |-> [flat |-> 0, recursive |-> 0]]

\* No _plan_sample_windows call under way.
WindowIdle ==
    /\ window_call = [file_size |-> 0, window_size |-> 0]
    /\ windows_planned = <<>>

\* No _reservoir_sample_files call under way.
ReservoirIdle ==
    /\ reservoir_pending = <<>>
    /\ reservoir_entries = <<>>
    /\ reservoir = {}
    /\ weighed = <<>>

\* No sample_directory_entropy call under way.
SamplerIdle ==
    /\ sample_tree = [root |-> <<>>, sub |-> <<>>]
    /\ sample_call = [max_files |-> 50, chunk_size |-> 65536, max_bytes |-> 4194304,
                      skip_root_files |-> FALSE, include_subdirectories |-> TRUE]
    /\ sample_list = <<>>
    /\ sample_index = 0
    /\ root_files_skipped = FALSE
    /\ sample_count = 0
    /\ sample_bytes = 0
    /\ weighted_entropy = 0
    /\ sample_result = <<>>
    /\ sample_retries = 0
    /\ sample_faults = [listing |-> {}, stat |-> {}]
    /\ sample_reads = <<>>
    /\ ReservoirIdle
    /\ WindowIdle

\* The run was not started from the command line.
CliIdle ==
    /\ args = [min_savings |-> 0, given |-> FALSE, directory |-> TRUE]
    /\ caller_input = min_savings_percent
    /\ stats_min_savings_percent = min_savings_percent

\* No worker cap set, and no evaluate_directories_parallel call under way.
PoolIdle ==
    /\ single_worker = FALSE
    /\ cpu_info = [physical |-> 1, logical |-> 1]
    /\ worker_cap = None
    /\ directory_list = <<>>
    /\ executor = "none"
    /\ task_state = [d \in Dirs |-> "none"]
    /\ task_runs = [d \in Dirs |-> 0]
    /\ future_result = <<>>
    /\ processed_count = 0
    /\ progress_calls = <<>>

\* A fresh CompressionStats() and no planning under way.
PlanIdle ==
    /\ file_skips = <<>>
    /\ skipped_files = 0
    /\ errors = <<>>
    /\ total_original_size = 0
    /\ entropy_samples = <<>>
    /\ entropy_directories_sampled = 0
    /\ entropy_directories_below_threshold = 0
    /\ files = <<>>
    /\ processed = 0
    /\ ordered_candidates = <<>>
    /\ candidates = <<>>
    /\ plan = <<>>
    /\ directories = {}
    /\ root_skip_record = <<>>
    /\ NoEntropyCalls
    /\ evaluated = {}
    /\ skip_results = <<>>
    /\ sample_results = <<>>
    /\ skipped_directories = <<>>
    /\ SamplerIdle
    /\ CliIdle
    /\ PoolIdle
    /\ eligible_directories = {base_dir}
    /\ eligible_files_found = 0
    /\ direct_file_bytes = [d \in Dirs |-> 0]
    /\ ordered_dirs = <<>>
    /\ children_map = [d \in Dirs |-> <<>>]
    /\ directories_to_sample = <<>>
    /\ raw_samples = <<>>
    /\ entropy_projected_original_bytes = 0
    /\ entropy_projected_compressed_bytes = 0

WalkInit ==
    /\ pc = "walk_root"
    /\ system_dirs \in SUBSET Dirs
    /\ unreadable \in SUBSET Dirs
    /\ has_callback \in BOOLEAN
    /\ collect_entropy \in BOOLEAN
    /\ min_savings_percent \in Thresholds
    /\ directory_skips = <<>>
    /\ entry = "iter_files"
    /\ verbosity = 0
    /\ IterIdle
    /\ PlanIdle

WalkNext == WalkRoot \/ WalkUnreadable \/ WalkDir \/ WalkEnd

SpecWalk == WalkInit /\ [][WalkNext]_vars

\* ----------------------------------------------------- the walker's claims
Count(f, s) == Cardinality({i \in 1..Len(s) : s[i] = f})

Denied(d) == decision[d] \in {"system", "high_entropy"}

\* C1: once the admissibility policy has reported skip for a directory (the
\* root included), no file of that directory or of a descendant is yielded,
\* and neither it nor any directory below it is listed or pushed.
C1_PrunedSubtreeNeverWalked ==
    \A d \in Dirs :
        Denied(d) =>
            /\ \A i \in 1..Len(yielded) : ~IsUnder(yielded[i].dir, d)
            /\ \A e \in Dirs : IsUnder(e, d) => e \notin listed /\ e \notin pushed

C1_Witness ==
    /\ pc = "walk_done"
    /\ Denied(<<"r", "a">>)
    /\ decision[<<"r", "b">>] = "allow"
    /\ Len(yielded) >= 2

\* C2: with a callback and a readable tree, every file is handled at most
\* once while the walk runs and exactly once when it has ended: yielded when
\* its directory and all its ancestors up to the root were admitted, passed to
\* the callback when it lies under a denied directory; the callback's bytes
\* are the sizes of the files under the denied directories.
C2_EachFileExactlyOnce ==
    (has_callback /\ unreadable = {}) =>
        /\ \A f \in Files : Count(f, yielded) + Count(f, pruned) <= 1
        /\ pc = "walk_done" =>
             /\ \A f \in Files :
                  /\ Count(f, yielded) + Count(f, pruned) = 1
                  /\ Count(f, yielded) = 1
                       <=> \A e \in Dirs : IsUnder(f.dir, e) => decision[e] = "allow"
                  /\ Count(f, pruned) = 1
                       <=> \E e \in Dirs : IsUnder(f.dir, e) /\ Denied(e)
             /\ pruned_bytes =
                  SumSizes(SelectSeq(Flatten([i \in 1..Len(DirOrder) |-> FileSeq(DirOrder[i])]),
                                     LAMBDA f : \E e \in Dirs : IsUnder(f.dir, e) /\ Denied(e)))

C2_Witness ==
    /\ pc = "walk_done"
    /\ has_callback
    /\ unreadable = {}
    /\ Denied(<<"r", "a">>)
    /\ \E i \in 1..Len(pruned) : pruned[i].dir = <<"r", "a", "c">>
    /\ \E i \in 1..Len(yielded) : yielded[i].dir = <<"r", "b">>

\* ------------------------------------------------- the walk, in one piece
\* The subdirectories of d that should_skip_directory admits, in listing order.
AdmittedSubDirs(d) == SelectSeq(SubDirSeq(d), LAMBDA e : e \notin system_dirs)

DeniedSubDirs(d) == SelectSeq(SubDirSeq(d), LAMBDA e : e \in system_dirs)

\* The files the loop of iter_files yields from d on, over a readable tree
\* with collect_entropy = False: the files of d, then the admitted
\* subdirectories depth-first in listing order.
RECURSIVE WalkFrom(_)
WalkFrom(d) ==
    FileSeq(d) \o Flatten([i \in 1..Len(AdmittedSubDirs(d)) |-> WalkFrom(AdmittedSubDirs(d)[i])])

\* The records that walk appends to stats.directory_skips.
RECURSIVE WalkSkipsFrom(_)
WalkSkipsFrom(d) ==
    [i \in 1..Len(DeniedSubDirs(d)) |-> SystemSkipRecord(DeniedSubDirs(d)[i])]
    \o Flatten([i \in 1..Len(AdmittedSubDirs(d)) |-> WalkSkipsFrom(AdmittedSubDirs(d)[i])])

\* list(iter_files(base_dir, stats, ..., collect_entropy=False)).
all_files == IF base_dir \in system_dirs THEN <<>> ELSE WalkFrom(base_dir)

all_files_skips ==
    IF base_dir \in system_dirs THEN <<SystemSkipRecord(base_dir)>> ELSE WalkSkipsFrom(base_dir)

\* ------------------------------------------------------ compression_module.py
\* compress_directory: the walk, and _plan_compression's return of [] when
\* no file was found.
CompressWalk ==
    /\ pc = "start"
    /\ entry = "compress_directory"
    /\ files' = all_files
    /\ directory_skips' = directory_skips \o all_files_skips
    /\ pc' = IF Len(all_files) = 0 THEN "planned" ELSE "scan"
    /\ UNCHANGED <<env_vars, min_savings_percent, iter_vars, scan_stats_vars,
                   entropy_stats_vars, entry, aux_vars, processed, ordered_candidates, candidates,
                   plan, filter_vars, dry_vars>>

\* plan_compression(..., apply_entropy_filter=...) as the entry point calls it:
\* compress_directory leaves the default, entropy_dry_run passes False.
apply_entropy_filter_always == TRUE

apply_entropy_filter == entry = "compress_directory"

\* ------------------------------------------------------------------ stats.py
\* record_file_skip with `self.skipped_files += 1` left out.
record_file_skip_uncounted(skips) ==
    /\ skipped_files' = skipped_files
    /\ file_skips' = file_skips \o skips

\* CompressionStats.record_file_skip for each of skips: the counter and
\* the FileSkipRecords.
record_file_skip(skips) ==
    /\ skipped_files' = skipped_files + Len(skips)
    /\ file_skips' = file_skips \o skips

\* ------------------------------------------------- compression_planner.py
\* What _scan_single finds for a file: a decision to compress, a decision
\* not to, or no decision because stat failed.
ScanOutcomes == {"compress", "reject", "error"}

\* entropy_dry_run._ancestors_through_base(path).
RECURSIVE _ancestors_through_base(_)
_ancestors_through_base(path) ==
    IF path = base_dir THEN <<path>>
    ELSE IF Parent(path) = path THEN <<path>>
    ELSE <<path>> \o _ancestors_through_base(Parent(path))

\* The file_observer plan_compression was given: none by compress_directory,
\* _observe_file by entropy_dry_run.
file_observer(file_path, file_size, should_compress) ==
    IF entry = "entropy_dry_run"
    THEN /\ direct_file_bytes' = [direct_file_bytes EXCEPT
                                     ![file_path.dir] = @ + file_size]
         /\ eligible_files_found' = eligible_files_found + (IF should_compress THEN 1 ELSE 0)
         /\ eligible_directories' =
               IF should_compress
               THEN eligible_directories \cup Range(_ancestors_through_base(file_path.dir))
               ELSE eligible_directories
    ELSE UNCHANGED observer_vars

\* One iteration of the scanning loop of plan_compression.
ScanFile ==
    /\ pc = "scan"
    /\ processed < Len(files)
    /\ LET file_path == files[processed + 1]
           file_size == FileSize(file_path)
       IN \E outcome \in ScanOutcomes :
            \/ /\ outcome = "error"
               /\ UNCHANGED observer_vars
               /\ errors' = Append(errors, file_path)
               /\ record_file_skip(<<[path |-> file_path,
                                      reason |-> <<"Error processing", 0>>,
                                      category |-> "error"]>>)
               /\ UNCHANGED <<total_original_size, ordered_candidates>>
            \/ /\ outcome = "compress"
               /\ file_observer(file_path, file_size, TRUE)
               /\ total_original_size' = total_original_size + file_size
               /\ ordered_candidates' = Append(ordered_candidates,
                                               [index |-> processed, path |-> file_path,
                                                file_size |-> file_size])
               /\ UNCHANGED <<errors, file_skips, skipped_files>>
            \/ /\ outcome = "reject"
               /\ file_observer(file_path, file_size, FALSE)
               /\ total_original_size' = total_original_size + file_size
               /\ record_file_skip(<<[path |-> file_path,
                                      reason |-> <<"Rejected", 0>>,
                                      category |-> "generic"]>>)
               /\ UNCHANGED <<errors, ordered_candidates>>
    /\ processed' = processed + 1
    /\ UNCHANGED <<pc, env_vars, min_savings_percent, iter_vars, directory_skips,
                   entropy_stats_vars, entry, aux_vars, files, candidates, plan, filter_vars,
                   verbosity, ordered_dirs, children_map, directories_to_sample,
                   raw_samples, entropy_projected_original_bytes,
                   entropy_projected_compressed_bytes>>

\* ordered_candidates.sort(key=lambda item: item[0]).
RECURSIVE SortByIndex(_)
SortByIndex(items) ==
    IF items = {} THEN <<>>
    ELSE LET first == CHOOSE x \in items : \A y \in items : x.index <= y.index
         IN <<first>> \o SortByIndex(items \ {first})

\* The same with `reverse=True`: (path, file_size) in descending index order.
SortedCandidatesReversed(s) ==
    LET sorted == SortByIndex(Range(s))
    IN [i \in 1..Len(sorted) |-> [path |-> sorted[Len(sorted) + 1 - i].path,
                                  file_size |-> sorted[Len(sorted) + 1 - i].file_size]]

\* The candidates after the sort: (path, file_size) in index order.
SortedCandidates(s) ==
    LET sorted == SortByIndex(Range(s))
    IN [i \in 1..Len(sorted) |-> [path |-> sorted[i].path,
                                  file_size |-> sorted[i].file_size]]

\* The end of plan_compression's scan: sort, then filter or return.
PlanSort ==
    /\ pc = "scan"
    /\ processed = Len(files)
    /\ candidates' = SortedCandidates(ordered_candidates)
    /\ IF apply_entropy_filter
       THEN pc' = "filter" /\ UNCHANGED plan
       ELSE pc' = "planned" /\ plan' = candidates'
    /\ UNCHANGED <<env_vars, min_savings_percent, iter_vars, directory_skips,
                   scan_stats_vars, entropy_stats_vars, entry, aux_vars, scan_vars, filter_vars,
                   dry_vars>>

\* _filter_high_entropy_directories returns the candidates untouched when
\* there are none or the threshold is not positive.
FilterReturnEarly ==
    /\ pc = "filter"
    /\ (Len(candidates) = 0 \/ min_savings_percent <= 0)
    /\ plan' = candidates
    /\ pc' = "planned"
    /\ UNCHANGED <<env_vars, min_savings_percent, iter_vars, directory_skips,
                   scan_stats_vars, entropy_stats_vars, entry, aux_vars, scan_vars, candidates,
                   filter_vars, dry_vars>>

\* `average_entropy is not None and sampled_files > 0 and sampled_bytes >= 1024`.
RootEvaluable(s) ==
    s.average_entropy # None /\ s.sampled_files > 0 /\ s.sampled_bytes >= 1024

\* The EntropySampleRecord of a directory sampled as s.
SampleRecord(directory, s) ==
    [path |-> directory,
     relative_path |-> _relative_to_base(directory),
     average_entropy |-> s.average_entropy,
     estimated_savings |-> savings_from_entropy(s.average_entropy),
     sampled_files |-> s.sampled_files,
     sampled_bytes |-> s.sampled_bytes,
     total_bytes |-> 0]

\* The root-level DirectorySkipRecord.
RootSkipRecord(s) ==
    [path |-> base_dir,
     relative_path |-> <<".">>,
     reason |-> <<"High entropy", savings_from_entropy(s.average_entropy)>>,
     category |-> "high_entropy",
     average_entropy |-> s.average_entropy,
     estimated_savings |-> savings_from_entropy(s.average_entropy),
     sampled_files |-> s.sampled_files,
     sampled_bytes |-> s.sampled_bytes]

\* The same test answering yes for every candidate list.
any_direct_candidate_always == TRUE

\* `any(path.parent == base_dir for path, _, _ in candidates)`.
any_direct_candidate == \E i \in 1..Len(candidates) : candidates[i].path.dir = base_dir

\* The directories of the candidates plus the base, and the non-recursive
\* sample of the base when a candidate lies directly in it.
FilterRoot ==
    /\ pc = "filter"
    /\ ~(Len(candidates) = 0 \/ min_savings_percent <= 0)
    /\ directories' = {candidates[i].path.dir : i \in 1..Len(candidates)} \cup {base_dir}
    /\ entropy_calls' = IF any_direct_candidate
                        THEN [entropy_calls EXCEPT ![base_dir].flat = @ + 1]
                        ELSE entropy_calls
    /\ IF any_direct_candidate
       THEN \E s \in SampleResults :
              IF RootEvaluable(s)
              THEN LET below == savings_from_entropy(s.average_entropy) < min_savings_percent
                   IN /\ entropy_samples' = Append(entropy_samples, SampleRecord(base_dir, s))
                      /\ entropy_directories_sampled' = entropy_directories_sampled + 1
                      /\ entropy_directories_below_threshold' =
                            entropy_directories_below_threshold + (IF below THEN 1 ELSE 0)
                      /\ root_skip_record' = IF below THEN <<RootSkipRecord(s)>> ELSE <<>>
                      /\ directory_skips' = IF below
                                            THEN Append(directory_skips, RootSkipRecord(s))
                                            ELSE directory_skips
              ELSE UNCHANGED <<entropy_stats_vars, root_skip_record, directory_skips>>
       ELSE UNCHANGED <<entropy_stats_vars, root_skip_record, directory_skips>>
    /\ pc' = "evaluate"
    /\ UNCHANGED <<env_vars, min_savings_percent, iter_vars, scan_stats_vars, entry, aux_vars,
                   scan_vars, candidates, plan, evaluated, skip_results, sample_results,
                   skipped_directories, dry_vars>>

\* A dict with key k set to v.
MapPut(m, k, v) == [x \in (DOMAIN m) \cup {k} |-> IF x = k THEN v ELSE m[x]]

\* The sample record a directory's evaluation returns beside the skip
\* record: one whenever the sample is evaluable.
evaluate_sample_record(directory, s) ==
    IF directory = base_dir THEN <<>>
    ELSE IF s.average_entropy = None \/ s.sampled_files = 0 \/ s.sampled_bytes < 1024
    THEN <<>>
    ELSE <<SampleRecord(directory, s)>>

\* evaluate_directories_parallel: one directory's evaluation completes and
\* its result is collected.
EvaluateDirectory ==
    /\ pc = "evaluate"
    /\ \E directory \in (directories \ {base_dir}) \ evaluated :
         \E s \in SampleResults :
            LET skip_record == evaluate_entropy_directory(directory, s, min_savings_percent)
                sample_record == evaluate_sample_record(directory, s)
            IN /\ evaluated' = evaluated \cup {directory}
               /\ skip_results' = IF Len(skip_record) > 0
                                  THEN MapPut(skip_results, directory, skip_record[1])
                                  ELSE skip_results
               /\ sample_results' = sample_results \o sample_record
               /\ entropy_calls' = [entropy_calls EXCEPT ![directory].recursive = @ + 1]
    /\ UNCHANGED <<pc, env_vars, min_savings_percent, iter_vars, directory_skips,
                   scan_stats_vars, entropy_stats_vars, entry, aux_vars, scan_vars, candidates, plan,
                   directories, root_skip_record, skipped_directories, dry_vars>>

\* The same loop passing over the records of directories that have an
\* ancestor below the base with a skip record.
record_sample_results_dominated ==
    LET kept == SelectSeq(sample_results,
                          LAMBDA r : ~\E e \in DOMAIN skip_results :
                                        e # r.path /\ IsUnder(r.path, e))
    IN /\ entropy_samples' = entropy_samples \o kept
       /\ entropy_directories_sampled' = entropy_directories_sampled + Len(kept)
       /\ entropy_directories_below_threshold' =
             entropy_directories_below_threshold
             + Cardinality({i \in 1..Len(kept) :
                              kept[i].estimated_savings < min_savings_percent})

\* The loop over sample_records after evaluate_directories_parallel has
\* returned: each record is appended to stats and counted.
record_sample_results ==
    /\ entropy_samples' = entropy_samples \o sample_results
    /\ entropy_directories_sampled' = entropy_directories_sampled + Len(sample_results)
    /\ entropy_directories_below_threshold' =
          entropy_directories_below_threshold
          + Cardinality({i \in 1..Len(sample_results) :
                           sample_results[i].estimated_savings < min_savings_percent})

\* evaluate_directories_parallel has returned: the sample records go to stats.
EvaluateReturn ==
    /\ pc = "evaluate"
    /\ evaluated = directories \ {base_dir}
    /\ record_sample_results
    /\ pc' = "dominance"
    /\ UNCHANGED <<env_vars, min_savings_percent, iter_vars, directory_skips,
                   scan_stats_vars, entry, aux_vars, scan_vars, candidates, plan, filter_vars,
                   dry_vars>>

\* _ancestors_including_base(path, base_dir): path, its parent, ... up to
\* the base directory or the filesystem root.
RECURSIVE _ancestors_including_base(_)
_ancestors_including_base(path) ==
    IF path = base_dir THEN <<path>>
    ELSE IF Parent(path) = path THEN <<path>>
    ELSE <<path>> \o _ancestors_including_base(Parent(path))

\* The ancestors whose record counts: a record of the base directory is
\* passed over for every directory but the base itself.
SkippedOnChain(directory, skipped) ==
    SelectSeq(_ancestors_including_base(directory),
              LAMBDA ancestor : /\ ancestor \in DOMAIN skipped
                                /\ ~(ancestor = base_dir /\ directory # base_dir))

_has_skipped_ancestor(directory, skipped) == Len(SkippedOnChain(directory, skipped)) > 0

_locate_skip_record_parent_only(directory, skipped) ==
    IF directory \in DOMAIN skipped /\ directory # base_dir THEN <<skipped[directory]>> ELSE <<>>

\* _locate_skip_record: the record of the nearest such ancestor, <<>> for None.
_locate_skip_record(directory, skipped) ==
    IF Len(SkippedOnChain(directory, skipped)) = 0 THEN <<>>
    ELSE <<skipped[SkippedOnChain(directory, skipped)[1]]>>

\* str(item).casefold() of two paths of equal length, compared part by part.
NameRank(n) == CASE n = "a" -> 1 [] n = "b" -> 2 [] n = "c" -> 3 [] n = "r" -> 4 [] OTHER -> 5

RECURSIVE StrLess(_, _)
StrLess(p, q) ==
    IF Len(p) = 0 \/ Len(q) = 0 THEN Len(p) < Len(q)
    ELSE IF Head(p) = Head(q) THEN StrLess(Tail(p), Tail(q))
    ELSE NameRank(Head(p)) < NameRank(Head(q))

\* The sort key (len(item.parts), str(item).casefold()).
KeyLessEq(p, q) == Len(p) < Len(q) \/ (Len(p) = Len(q) /\ (p = q \/ StrLess(p, q)))

RECURSIVE sorted_directories_descending(_)
sorted_directories_descending(ds) ==
    IF ds = {} THEN <<>>
    ELSE LET first == CHOOSE x \in ds : \A y \in ds : KeyLessEq(y, x)
         IN <<first>> \o sorted_directories_descending(ds \ {first})

\* sorted(directories, key=...): ascending depth, then name.
RECURSIVE sorted_directories(_)
sorted_directories(ds) ==
    IF ds = {} THEN <<>>
    ELSE LET first == CHOOSE x \in ds : \A y \in ds : KeyLessEq(x, y)
         IN <<first>> \o sorted_directories(ds \ {first})

\* The dominance loop over the sorted directories: a directory under a
\* registered ancestor is passed over, another one with a record in
\* entropy_records is registered and its record appended to stats.
RECURSIVE dominance_loop(_, _, _)
dominance_loop(sorted, entropy_records, acc) ==
    IF Len(sorted) = 0 THEN acc
    ELSE IF _has_skipped_ancestor(Head(sorted), acc.skipped)
    THEN dominance_loop(Tail(sorted), entropy_records, acc)
    ELSE IF Head(sorted) \in DOMAIN entropy_records
    THEN dominance_loop(Tail(sorted), entropy_records,
                        [skipped |-> MapPut(acc.skipped, Head(sorted),
                                            entropy_records[Head(sorted)]),
                         appended |-> Append(acc.appended, entropy_records[Head(sorted)])])
    ELSE dominance_loop(Tail(sorted), entropy_records, acc)

\* The dominance pass, and the return of the candidates untouched when no
\* directory was registered.
DominancePass ==
    /\ pc = "dominance"
    /\ LET result == dominance_loop(sorted_directories(directories), skip_results,
                                    [skipped |-> <<>>, appended |-> <<>>])
       IN /\ skipped_directories' = result.skipped
          /\ directory_skips' = directory_skips \o result.appended
          /\ IF DOMAIN result.skipped = {}
             THEN plan' = candidates /\ pc' = "planned"
             ELSE UNCHANGED plan /\ pc' = "filter_candidates"
    /\ UNCHANGED <<env_vars, min_savings_percent, iter_vars, scan_stats_vars,
                   entropy_stats_vars, entry, aux_vars, scan_vars, candidates, directories,
                   root_skip_record, evaluated, skip_results, sample_results, entropy_calls,
                   dry_vars>>

\* The FileSkipRecord of a candidate removed under a directory's record.
FileSkip(candidate, record) ==
    [path |-> candidate.path, reason |-> record.reason, category |-> record.category]

CoveredByRootAnywhere(candidate, root_record) == Len(root_record) > 0

\* `root_skip_record and parent == base_dir`: the root-level record covers
\* the candidate.
CoveredByRoot(candidate, root_record) ==
    Len(root_record) > 0 /\ candidate.path.dir = base_dir

\* The filtering loop: what stays in the plan and the file skips recorded.
RECURSIVE filter_loop(_, _, _)
filter_loop(cands, root_record, skipped) ==
    IF Len(cands) = 0 THEN [filtered |-> <<>>, skips |-> <<>>]
    ELSE LET rest == filter_loop(Tail(cands), root_record, skipped)
             located == _locate_skip_record(Head(cands).path.dir, skipped)
         IN IF CoveredByRoot(Head(cands), root_record)
            THEN [filtered |-> rest.filtered,
                  skips |-> <<FileSkip(Head(cands), root_record[1])>> \o rest.skips]
            ELSE IF Len(located) > 0
            THEN [filtered |-> rest.filtered,
                  skips |-> <<FileSkip(Head(cands), located[1])>> \o rest.skips]
            ELSE [filtered |-> <<Head(cands)>> \o rest.filtered, skips |-> rest.skips]

\* The filtering loop of _filter_high_entropy_directories and its return.
FilterCandidates ==
    /\ pc = "filter_candidates"
    /\ LET result == filter_loop(candidates, root_skip_record, skipped_directories)
       IN /\ plan' = result.filtered
          /\ record_file_skip(result.skips)
    /\ pc' = "planned"
    /\ UNCHANGED <<env_vars, min_savings_percent, iter_vars, directory_skips, errors,
                   total_original_size, entropy_stats_vars, entry, aux_vars, scan_vars, candidates,
                   filter_vars, dry_vars>>

Init ==
    /\ pc = "start"
    /\ system_dirs \in SUBSET Dirs
    /\ unreadable = {}
    /\ has_callback = FALSE
    /\ collect_entropy = FALSE
    /\ min_savings_percent \in Thresholds
    /\ directory_skips = <<>>
    /\ entry = "compress_directory"
    /\ verbosity = 0
    /\ IterIdle
    /\ PlanIdle

Next ==
    \/ CompressWalk
    \/ ScanFile
    \/ PlanSort
    \/ FilterReturnEarly
    \/ FilterRoot
    \/ EvaluateDirectory
    \/ EvaluateReturn
    \/ DominancePass
    \/ FilterCandidates

Spec == Init /\ [][Next]_vars

\* ---------------------------------------------------------- entropy_dry_run
\* The decision on the base directory: a denied base ends the dry run.
DryRootDecision ==
    /\ pc = "start"
    /\ entry = "entropy_dry_run"
    /\ IF base_dir \in system_dirs
       THEN /\ directory_skips' = Append(directory_skips, SystemSkipRecord(base_dir))
            /\ pc' = "done"
       ELSE /\ UNCHANGED directory_skips
            /\ pc' = "dry_walk"
    /\ UNCHANGED <<env_vars, min_savings_percent, iter_vars, plan_vars>>

\* The files _skipped_file_callback receives during the walk from d on.
RECURSIVE WalkPrunedFrom(_)
WalkPrunedFrom(d) ==
    Flatten([i \in 1..Len(DeniedSubDirs(d)) |-> _traverse_skipped(DeniedSubDirs(d)[i])])
    \o Flatten([i \in 1..Len(AdmittedSubDirs(d)) |-> WalkPrunedFrom(AdmittedSubDirs(d)[i])])

\* The walk in one piece is the walk of iter_files step by step: what it
\* yields, the records it appends and what the callback receives.
WalkAgrees ==
    (pc = "walk_done" /\ ~collect_entropy /\ unreadable = {}) =>
        /\ yielded = all_files
        /\ directory_skips = all_files_skips
        /\ has_callback =>
              pruned = (IF base_dir \in system_dirs THEN _traverse_skipped(base_dir)
                        ELSE WalkPrunedFrom(base_dir))

\* The bytes of the files of fs that lie directly in d.
DirectBytes(fs, d) == SumSizes(SelectSeq(fs, LAMBDA f : f.dir = d))

\* all_files = list(iter_files(..., skipped_file_callback=_skipped_file_callback)).
DryWalk ==
    /\ pc = "dry_walk"
    /\ files' = all_files
    /\ directory_skips' = directory_skips \o all_files_skips
    /\ direct_file_bytes' = [d \in Dirs |->
                               direct_file_bytes[d] + DirectBytes(WalkPrunedFrom(base_dir), d)]
    /\ pc' = "scan"
    /\ UNCHANGED <<env_vars, min_savings_percent, iter_vars, scan_stats_vars,
                   entropy_stats_vars, entry, aux_vars, processed, ordered_candidates, candidates,
                   plan, filter_vars, verbosity, eligible_directories, eligible_files_found,
                   ordered_dirs, children_map, directories_to_sample, raw_samples,
                   entropy_projected_original_bytes, entropy_projected_compressed_bytes>>

\* plan_compression has returned: the dry run ends when nothing is eligible.
DryPlanned ==
    /\ pc = "planned"
    /\ entry = "entropy_dry_run"
    /\ entropy_projected_original_bytes' = total_original_size
    /\ pc' = IF eligible_files_found = 0 THEN "done" ELSE "dry_topology"
    /\ UNCHANGED <<env_vars, min_savings_percent, iter_vars, directory_skips,
                   scan_stats_vars, entropy_stats_vars, entry, aux_vars, scan_vars, candidates, plan,
                   filter_vars, verbosity, observer_vars, ordered_dirs, children_map,
                   directories_to_sample, raw_samples, entropy_projected_compressed_bytes>>

\* The breadth-first pass over the admitted directories: the visiting
\* order, the children of each, the skip records maybe_skip_directory
\* appends and the eligible directories below the base, to be sampled.
RECURSIVE dry_run_topology(_, _)
dry_run_topology(pending, acc) ==
    IF Len(pending) = 0 THEN acc
    ELSE IF Head(pending) \in Range(acc.ordered_dirs)
    THEN dry_run_topology(Tail(pending), acc)
    ELSE LET current == Head(pending)
             denied == DeniedSubDirs(current)
         IN dry_run_topology(
               Tail(pending) \o AdmittedSubDirs(current),
               [ordered_dirs |-> Append(acc.ordered_dirs, current),
                children_map |-> [acc.children_map EXCEPT ![current] = AdmittedSubDirs(current)],
                skips |-> acc.skips \o [i \in 1..Len(denied) |-> SystemSkipRecord(denied[i])],
                to_sample |-> IF current # base_dir /\ current \in eligible_directories
                              THEN Append(acc.to_sample, current)
                              ELSE acc.to_sample])

DryTopology ==
    /\ pc = "dry_topology"
    /\ LET result == dry_run_topology(<<base_dir>>,
                                      [ordered_dirs |-> <<>>, children_map |-> children_map,
                                       skips |-> <<>>, to_sample |-> <<>>])
       IN /\ ordered_dirs' = result.ordered_dirs
          /\ children_map' = result.children_map
          /\ directory_skips' = directory_skips \o result.skips
          /\ directories_to_sample' = result.to_sample
    /\ pc' = "dry_sample"
    /\ UNCHANGED <<env_vars, min_savings_percent, iter_vars, scan_stats_vars,
                   entropy_stats_vars, entry, aux_vars, scan_vars, candidates, plan, filter_vars,
                   verbosity, observer_vars, raw_samples, entropy_projected_original_bytes,
                   entropy_projected_compressed_bytes>>

\* The sample the dry run keeps: everything but
\* `average_entropy is None or sampled_files == 0 or sampled_bytes == 0`.
DryEvaluable(s) == ~(s.average_entropy = None \/ s.sampled_files = 0 \/ s.sampled_bytes = 0)

\* An entry of raw_samples.
RawSample(path, s) ==
    [path |-> path,
     average_entropy |-> s.average_entropy,
     estimated_savings |-> savings_from_entropy(s.average_entropy),
     sampled_files |-> s.sampled_files,
     sampled_bytes |-> s.sampled_bytes]

BelowThreshold(samples) ==
    Cardinality({i \in 1..Len(samples) : samples[i].estimated_savings < min_savings_percent})

\* _sample_directories_parallel and the loop over its results.
DrySample ==
    /\ pc = "dry_sample"
    /\ \E sampled_results \in [Range(directories_to_sample) -> SampleResults] :
         LET kept == SelectSeq(directories_to_sample,
                               LAMBDA d : DryEvaluable(sampled_results[d]))
             new == [i \in 1..Len(kept) |-> RawSample(kept[i], sampled_results[kept[i]])]
         IN /\ raw_samples' = raw_samples \o new
            /\ entropy_directories_sampled' = entropy_directories_sampled + Len(new)
            /\ entropy_directories_below_threshold' =
                  entropy_directories_below_threshold + BelowThreshold(new)
    /\ pc' = "dry_base"
    /\ UNCHANGED <<env_vars, min_savings_percent, iter_vars, directory_skips,
                   scan_stats_vars, entropy_samples, entry, aux_vars, scan_vars, candidates, plan,
                   filter_vars, verbosity, observer_vars, ordered_dirs, children_map,
                   directories_to_sample, entropy_projected_original_bytes,
                   entropy_projected_compressed_bytes>>

RECURSIVE SumSeq(_)
SumSeq(s) == IF Len(s) = 0 THEN 0 ELSE Head(s) + SumSeq(Tail(s))

\* total_bytes_map[directory]: its direct bytes plus its children's totals.
RECURSIVE total_bytes_map(_)
total_bytes_map(directory) ==
    direct_file_bytes[directory]
    + SumSeq([i \in 1..Len(children_map[directory]) |->
                total_bytes_map(children_map[directory][i])])

\* total_bytes_map.get(path, 0).
total_bytes(path) == IF path \in Range(ordered_dirs) THEN total_bytes_map(path) ELSE 0

\* The sample of the base directory, taken when it is worth reporting.
DryBase ==
    /\ pc = "dry_base"
    /\ LET base_total == total_bytes(base_dir)
       IN IF base_total # 0 /\ (verbosity >= 4 \/ base_total >= REPORTABLE_DIRECTORY_MIN_BYTES)
          THEN \E s \in SampleResults :
                 IF s.average_entropy # None /\ s.sampled_files > 0 /\ s.sampled_bytes > 0
                 THEN /\ raw_samples' = Append(raw_samples, RawSample(base_dir, s))
                      /\ entropy_directories_sampled' = entropy_directories_sampled + 1
                      /\ entropy_directories_below_threshold' =
                            entropy_directories_below_threshold
                            + BelowThreshold(<<RawSample(base_dir, s)>>)
                 ELSE UNCHANGED <<raw_samples, entropy_directories_sampled,
                                  entropy_directories_below_threshold>>
          ELSE UNCHANGED <<raw_samples, entropy_directories_sampled,
                           entropy_directories_below_threshold>>
    /\ pc' = "dry_report"
    /\ UNCHANGED <<env_vars, min_savings_percent, iter_vars, directory_skips,
                   scan_stats_vars, entropy_samples, entry, aux_vars, scan_vars, candidates, plan,
                   filter_vars, verbosity, observer_vars, ordered_dirs, children_map,
                   directories_to_sample, entropy_projected_original_bytes,
                   entropy_projected_compressed_bytes>>

\* sampled_paths of the dry run.
sampled_paths == {raw_samples[i].path : i \in 1..Len(raw_samples)}

\* reportable_totals[directory]: its direct bytes plus the totals of the
\* children that were not sampled themselves.
reportable_totals(directory) ==
    direct_file_bytes[directory]
    + SumSeq([i \in 1..Len(children_map[directory]) |->
                IF children_map[directory][i] \in sampled_paths THEN 0
                ELSE total_bytes_map(children_map[directory][i])])

\* reported_flags.get(path, False).
reported_flags(path) ==
    /\ path \in Range(ordered_dirs)
    /\ path \in sampled_paths
    /\ reportable_totals(path) >= REPORTABLE_DIRECTORY_MIN_BYTES

\* The EntropySampleRecords built from raw_samples.
DryRecords ==
    [i \in 1..Len(raw_samples) |->
        [path |-> raw_samples[i].path,
         relative_path |-> _relative_to_base(raw_samples[i].path),
         average_entropy |-> raw_samples[i].average_entropy,
         estimated_savings |-> raw_samples[i].estimated_savings,
         sampled_files |-> raw_samples[i].sampled_files,
         sampled_bytes |-> raw_samples[i].sampled_bytes,
         total_bytes |-> total_bytes(raw_samples[i].path)]]

\* list.sort(key=lambda record: record.estimated_savings, reverse=True):
\* descending and stable.
RECURSIVE sort_by_savings(_)
sort_by_savings(records) ==
    IF Len(records) = 0 THEN <<>>
    ELSE LET first == CHOOSE i \in 1..Len(records) :
                        /\ \A j \in 1..Len(records) :
                              records[j].estimated_savings <= records[i].estimated_savings
                        /\ \A j \in 1..(i - 1) :
                              records[j].estimated_savings < records[i].estimated_savings
         IN <<records[first]>>
            \o sort_by_savings(SubSeq(records, 1, first - 1)
                               \o SubSeq(records, first + 1, Len(records)))

\* int(round(n / d)) for n >= 0: Python rounds halves to the even neighbour.
RoundDiv(n, d) ==
    LET q == n \div d
        r == n % d
    IN IF 2 * r < d THEN q
       ELSE IF 2 * r > d THEN q + 1
       ELSE IF q % 2 = 0 THEN q ELSE q + 1

\* The share a record takes out of the projection, in hundredths of a byte
\* saved: nothing for an empty share or savings below the threshold.
projected_saving(record) ==
    IF reportable_totals(record.path) <= 0 THEN 0
    ELSE IF record.estimated_savings < min_savings_percent THEN 0
    ELSE reportable_totals(record.path) * record.estimated_savings

\* The report: the records kept in stats and the projected sizes.
DryReport ==
    /\ pc = "dry_report"
    /\ entropy_samples' =
          sort_by_savings(IF verbosity >= 4 THEN DryRecords
                          ELSE SelectSeq(DryRecords, LAMBDA record : reported_flags(record.path)))
    /\ entropy_projected_original_bytes' = total_bytes(base_dir)
    /\ LET projected_total ==
              100 * total_bytes(base_dir)
              - SumSeq([i \in 1..Len(DryRecords) |-> projected_saving(DryRecords[i])])
       IN entropy_projected_compressed_bytes' =
             IF projected_total <= 0 THEN 0 ELSE RoundDiv(projected_total, 100)
    /\ pc' = "done"
    /\ UNCHANGED <<env_vars, min_savings_percent, iter_vars, directory_skips,
                   scan_stats_vars, entropy_directories_sampled,
                   entropy_directories_below_threshold, entry, aux_vars, scan_vars, candidates, plan,
                   filter_vars, verbosity, observer_vars, ordered_dirs, children_map,
                   directories_to_sample, raw_samples>>

\* The verbosity levels that matter: the default and the debug level.
VerbosityLevels == {0, 4}

DryInit ==
    /\ pc = "start"
    /\ system_dirs \in SUBSET Dirs
    /\ unreadable = {}
    /\ has_callback = TRUE
    /\ collect_entropy = FALSE
    /\ min_savings_percent \in Thresholds
    /\ directory_skips = <<>>
    /\ entry = "entropy_dry_run"
    /\ verbosity \in VerbosityLevels
    /\ IterIdle
    /\ PlanIdle

DryNext ==
    \/ DryRootDecision
    \/ DryWalk
    \/ ScanFile
    \/ PlanSort
    \/ DryPlanned
    \/ DryTopology
    \/ DrySample
    \/ DryBase
    \/ DryReport

SpecDry == DryInit /\ [][DryNext]_vars

\* ------------------------------------------------------ the planner's claims
InPlan(candidate) == \E i \in 1..Len(plan) : plan[i] = candidate

\* The skipped directories strictly below the base on the chain from d upward.
SkippedChain(d) == {e \in DOMAIN skipped_directories : e # base_dir /\ IsUnder(d, e)}

\* The directories with an evaluation record and no strict ancestor below
\* the base that has one.
TopmostRecorded ==
    {d \in DOMAIN skip_results :
        ~\E e \in DOMAIN skip_results : e # d /\ e # base_dir /\ IsUnder(d, e)}

\* The high_entropy records in stats of directories other than the base.
DominanceRecords ==
    SelectSeq(directory_skips, LAMBDA r : r.category = "high_entropy" /\ r.path # base_dir)

DominanceDone == entry = "compress_directory" /\ pc \in {"filter_candidates", "planned"}

\* C3: after the dominance pass, whatever the evaluations returned, neither
\* the skip map nor the high_entropy records the pass appended to stats hold
\* both a directory and a strict descendant of it: the map holds exactly the
\* topmost directories that have an evaluation record, each with that record,
\* and stats holds exactly those records, once each.
C3_AncestorDominance ==
    DominanceDone =>
        /\ \A a \in DOMAIN skipped_directories : \A b \in DOMAIN skipped_directories :
              (a # b) => ~IsUnder(b, a)
        /\ \A i \in 1..Len(DominanceRecords) : \A j \in 1..Len(DominanceRecords) :
              (i # j) => ~IsUnder(DominanceRecords[j].path, DominanceRecords[i].path)
        /\ DOMAIN skipped_directories = TopmostRecorded
        /\ \A d \in DOMAIN skipped_directories : skipped_directories[d] = skip_results[d]
        /\ Range(DominanceRecords) = {skip_results[d] : d \in TopmostRecorded}
        /\ Len(DominanceRecords) = Cardinality(TopmostRecorded)

C3_Witness ==
    /\ DominanceDone
    /\ <<"r", "a">> \in DOMAIN skip_results
    /\ <<"r", "a", "c">> \in DOMAIN skip_results
    /\ <<"r", "a">> \in DOMAIN skipped_directories
    /\ <<"r", "a", "c">> \notin DOMAIN skipped_directories

FilterDone == entry = "compress_directory" /\ pc = "planned"

\* C4: when the filter has returned, a candidate of a subdirectory is out of
\* the plan exactly when its parent or an ancestor of the parent strictly
\* below the base is in the skip map; that directory is then the only skipped
\* one on the chain, and the candidate has exactly one file skip, which
\* carries that directory's reason and category.
C4_RemovedIffUnderSkippedDirectory ==
    FilterDone =>
        \A i \in 1..Len(candidates) :
            LET candidate == candidates[i]
                chain == SkippedChain(candidate.path.dir)
                skips == {j \in 1..Len(file_skips) : file_skips[j].path = candidate.path}
            IN candidate.path.dir # base_dir =>
                 /\ InPlan(candidate) <=> chain = {}
                 /\ chain = {} => skips = {}
                 /\ chain # {} =>
                      /\ Cardinality(chain) = 1
                      /\ Cardinality(skips) = 1
                      /\ \A e \in chain : \A j \in skips :
                            /\ file_skips[j].reason = skipped_directories[e].reason
                            /\ file_skips[j].category = skipped_directories[e].category
                            /\ file_skips[j].category = "high_entropy"

C4_Witness ==
    /\ FilterDone
    /\ <<"r", "a">> \in DOMAIN skipped_directories
    /\ \E i \in 1..Len(candidates) :
          candidates[i].path.dir = <<"r", "a", "c">> /\ ~InPlan(candidates[i])
    /\ \E i \in 1..Len(candidates) :
          candidates[i].path.dir = <<"r", "b">> /\ InPlan(candidates[i])

\* C5: whenever a root-level skip record was produced, every candidate
\* lying directly in the base directory is out of the returned plan and has
\* a file skip with the root record's reason and category, whether or not
\* any other directory is skipped.
C5_RootRecordRemovesDirectFiles ==
    (FilterDone /\ Len(root_skip_record) > 0) =>
        \A i \in 1..Len(candidates) :
            candidates[i].path.dir = base_dir =>
                /\ ~InPlan(candidates[i])
                /\ \E j \in 1..Len(file_skips) :
                      /\ file_skips[j].path = candidates[i].path
                      /\ file_skips[j].reason = root_skip_record[1].reason
                      /\ file_skips[j].category = root_skip_record[1].category

\* C6: a root-level skip record covers the direct files of the base only: a
\* candidate of a subdirectory with no skipped directory on its chain below
\* the base stays in the plan without a file skip, and every subdirectory
\* with an evaluation record and no recorded ancestor below the base is
\* registered in the skip map with its own record, which is in stats.
C6_RootRecordCoversDirectFilesOnly ==
    (FilterDone /\ Len(root_skip_record) > 0) =>
        /\ \A i \in 1..Len(candidates) :
              (candidates[i].path.dir # base_dir /\ SkippedChain(candidates[i].path.dir) = {})
                 => /\ InPlan(candidates[i])
                    /\ \A j \in 1..Len(file_skips) : file_skips[j].path # candidates[i].path
        /\ base_dir \notin DOMAIN skipped_directories
        /\ \A d \in DOMAIN skip_results :
              (\A e \in DOMAIN skip_results : (e # d /\ e # base_dir) => ~IsUnder(d, e))
                 => /\ d \in DOMAIN skipped_directories
                    /\ skipped_directories[d] = skip_results[d]
                    /\ \E k \in 1..Len(directory_skips) : directory_skips[k] = skip_results[d]

C6_Witness ==
    /\ FilterDone
    /\ Len(root_skip_record) > 0
    /\ <<"r", "a">> \in DOMAIN skipped_directories
    /\ \E i \in 1..Len(candidates) :
          candidates[i].path.dir = <<"r", "b">> /\ InPlan(candidates[i])
    /\ \E i \in 1..Len(candidates) :
          candidates[i].path.dir = base_dir /\ ~InPlan(candidates[i])

\* The scan of plan_compression is over.
ScanDone == pc \notin {"start", "dry_walk", "scan"}

\* C7: with apply_entropy_filter = False, plan_compression returns exactly
\* the files the classifier accepted, in the order they were discovered;
\* when it returns no directory has been sampled and there is no
\* high_entropy directory record or file skip.
C7_DebugBypass ==
    (entry = "entropy_dry_run" /\ ScanDone) =>
        /\ pc # "filter"
        /\ Len(plan) = Len(ordered_candidates)
        /\ \A i \in 1..Len(plan) :
              /\ plan[i].path = ordered_candidates[i].path
              /\ plan[i].path = files[ordered_candidates[i].index + 1]
              /\ \A j \in 1..Len(plan) :
                    (i < j) => ordered_candidates[i].index < ordered_candidates[j].index
        /\ \A k \in 1..Len(files) :
              (\E i \in 1..Len(plan) : plan[i].path = files[k])
                 <=> ~\E j \in 1..Len(file_skips) : file_skips[j].path = files[k]
        /\ \A j \in 1..Len(file_skips) : file_skips[j].category # "high_entropy"
        /\ \A k \in 1..Len(directory_skips) : directory_skips[k].category # "high_entropy"
        /\ pc = "planned" => (entropy_samples = <<>> /\ entropy_directories_sampled = 0)

C7_Witness ==
    /\ entry = "entropy_dry_run"
    /\ pc = "planned"
    /\ min_savings_percent = 90
    /\ Len(plan) >= 3
    /\ Len(file_skips) >= 1
    /\ \E i \in 1..Len(plan) : plan[i].path.dir = <<"r", "a", "c">>

\* C8: no EntropySampleRecord in stats, and no high_entropy
\* DirectorySkipRecord, comes from a sample of fewer than 1024 bytes.
C8_SamplingValidityFloor ==
    /\ \A i \in 1..Len(entropy_samples) : entropy_samples[i].sampled_bytes >= 1024
    /\ \A k \in 1..Len(directory_skips) :
          directory_skips[k].category = "high_entropy"
             => directory_skips[k].sampled_bytes >= 1024

\* The average entropies a sample can have, in whole bits per byte.
Entropies == 0..8

\* C11: the estimated savings never rise with the entropy, and a directory
\* whose evaluation returned a skip record at its average entropy gets one
\* as well, under the same threshold and the same sample counts, at every
\* higher average entropy.
C11_SavingsMonotonicity ==
    /\ \A e1 \in Entropies : \A e2 \in Entropies :
          (e1 < e2) => savings_from_entropy(e1) >= savings_from_entropy(e2)
    /\ \A directory \in DOMAIN skip_results : \A e2 \in Entropies :
          (skip_results[directory].average_entropy < e2) =>
             Len(evaluate_entropy_directory(
                    directory,
                    [average_entropy |-> e2,
                     sampled_files |-> skip_results[directory].sampled_files,
                     sampled_bytes |-> skip_results[directory].sampled_bytes],
                    min_savings_percent)) > 0

C11_Witness ==
    /\ entry = "compress_directory"
    /\ min_savings_percent = 90
    /\ \E directory \in DOMAIN skip_results :
          /\ skip_results[directory].average_entropy = 4
          /\ skip_results[directory].estimated_savings = 45

\* ----------------------------------------------------------------- entropy.py
\* Files in the sampled directory's subdirectory, at most.
MaxSubFiles == 2

MAX_SAMPLE_WINDOWS == 3

TARGET_WINDOW_SIZE == 16 * 1024

Min(a, b) == IF a <= b THEN a ELSE b

Max(a, b) == IF a >= b THEN a ELSE b

\* _derive_window_size without the shrinking to a third of the budget.
_derive_window_size_unshrunk(byte_budget) ==
    IF byte_budget <= 0 THEN 0 ELSE Max(1, Min(TARGET_WINDOW_SIZE, byte_budget))

\* _derive_window_size(byte_budget): the target window, or a third of the
\* budget when three target windows would exceed it; at least 1.
_derive_window_size(byte_budget) ==
    IF byte_budget <= 0 THEN 0
    ELSE LET window == Min(TARGET_WINDOW_SIZE, byte_budget)
         IN Max(1, IF window * MAX_SAMPLE_WINDOWS > byte_budget
                      /\ byte_budget >= MAX_SAMPLE_WINDOWS
                   THEN byte_budget \div MAX_SAMPLE_WINDOWS
                   ELSE window)

\* The clamping of one planned window to the file, <<>> when nothing is left.
ClampWindow(window, file_size) ==
    LET clamped_offset == Max(0, Min(window[1], file_size - window[2]))
        clamped_length == Min(window[2], file_size - clamped_offset)
    IN IF clamped_length <= 0 THEN <<>> ELSE << <<clamped_offset, clamped_length>> >>

\* The deduplication loop of _plan_sample_windows.
RECURSIVE DedupeWindows(_, _, _)
DedupeWindows(windows, file_size, deduped) ==
    IF Len(windows) = 0 THEN deduped
    ELSE LET key == ClampWindow(Head(windows), file_size)
         IN IF Len(key) = 0 \/ key[1] \in Range(deduped)
            THEN DedupeWindows(Tail(windows), file_size, deduped)
            ELSE DedupeWindows(Tail(windows), file_size, Append(deduped, key[1]))

\* _plan_sample_windows keeping `windows[:2]`.
_plan_sample_windows_two(file_size, window_size) ==
    IF file_size <= 0 \/ window_size <= 0 THEN <<>>
    ELSE IF file_size <= window_size THEN << <<0, file_size>> >>
    ELSE LET windows ==
                IF file_size <= 2 * window_size
                THEN << <<0, window_size>>, <<Max(0, file_size - window_size), window_size>> >>
                ELSE << <<0, window_size>>,
                        <<Max(0, (file_size \div 2) - (window_size \div 2)), window_size>>,
                        <<Max(0, file_size - window_size), window_size>> >>
         IN DedupeWindows(SubSeq(windows, 1, Min(Len(windows), 2)), file_size, <<>>)

\* _plan_sample_windows: the (offset, length) windows to read of a file.
_plan_sample_windows(file_size, window_size) ==
    IF file_size <= 0 \/ window_size <= 0 THEN <<>>
    ELSE IF file_size <= window_size THEN << <<0, file_size>> >>
    ELSE LET windows ==
                IF file_size <= 2 * window_size
                THEN << <<0, window_size>>, <<Max(0, file_size - window_size), window_size>> >>
                ELSE << <<0, window_size>>,
                        <<Max(0, (file_size \div 2) - (window_size \div 2)), window_size>>,
                        <<Max(0, file_size - window_size), window_size>> >>
         IN DedupeWindows(SubSeq(windows, 1, Min(Len(windows), MAX_SAMPLE_WINDOWS)),
                          file_size, <<>>)

\* The reading loop of _sample_file_entropy over the planned windows; the
\* probe rates every chunk of the file at entropy bits per byte.
RECURSIVE ReadWindows(_, _, _, _)
ReadWindows(windows, byte_budget, entropy, acc) ==
    IF Len(windows) = 0 THEN acc
    ELSE IF byte_budget - acc.sampled_bytes <= 0 THEN acc
    ELSE LET read_len == Min(Head(windows)[2], byte_budget - acc.sampled_bytes)
         IN IF read_len <= 0 THEN acc
            ELSE ReadWindows(Tail(windows), byte_budget, entropy,
                             [weighted_entropy |-> acc.weighted_entropy + entropy * read_len,
                              sampled_bytes |-> acc.sampled_bytes + read_len])

\* Where sampling a file can meet an OSError: at path.stat(), at path.open()
\* or at a read after the first window.
FileFaults == {"none", "stat", "open", "read"}

\* _sample_file_entropy keeping what was read before a failing read.
_sample_file_entropy_partial(file_size, byte_budget, entropy, fault) ==
    IF byte_budget <= 0 \/ fault \in {"stat", "open"} \/ file_size = 0
    THEN [weighted_entropy |-> 0, sampled_bytes |-> 0]
    ELSE LET windows == _plan_sample_windows(file_size, _derive_window_size(byte_budget))
         IN ReadWindows(IF fault = "read" THEN SubSeq(windows, 1, Min(1, Len(windows)))
                        ELSE windows,
                        byte_budget, entropy, [weighted_entropy |-> 0, sampled_bytes |-> 0])

\* _sample_file_entropy(path, byte_budget=...): the weighted entropy and the
\* bytes read; (0, 0) for no budget, an empty file, and for a file whose
\* stat, open or read raises OSError, whatever was read before.
_sample_file_entropy(file_size, byte_budget, entropy, fault) ==
    IF byte_budget <= 0 THEN [weighted_entropy |-> 0, sampled_bytes |-> 0]
    ELSE IF fault = "stat" THEN [weighted_entropy |-> 0, sampled_bytes |-> 0]
    ELSE IF file_size = 0 THEN [weighted_entropy |-> 0, sampled_bytes |-> 0]
    ELSE IF fault \in {"open", "read"} THEN [weighted_entropy |-> 0, sampled_bytes |-> 0]
    ELSE ReadWindows(_plan_sample_windows(file_size, _derive_window_size(byte_budget)),
                     byte_budget, entropy, [weighted_entropy |-> 0, sampled_bytes |-> 0])

\* os.scandir(current) succeeds: the root can be listed, and so can the
\* subdirectory, which is only found by listing the root.
Listable(at) ==
    /\ "root" \notin sample_faults.listing
    /\ at \notin sample_faults.listing

\* entry.stat() succeeds for the file.
Statable(f) == ~(f.idx = 1 /\ f.at \in sample_faults.stat)

\* The files _reservoir_sample_files weighs: regular files of positive size,
\* of the root unless skip_root_files, of the subdirectory when included;
\* a directory that cannot be listed and a file that cannot be stat'ed are
\* passed over.
ReservoirEligible(tree, call) ==
    {f \in [at : {"root"}, idx : 1..Len(tree.root), size : Range(tree.root)] :
        /\ ~call.skip_root_files
        /\ Listable("root")
        /\ Statable(f)
        /\ f.size = tree.root[f.idx]
        /\ f.size > 0}
    \cup
    {f \in [at : {"sub"}, idx : 1..Len(tree.sub), size : Range(tree.sub)] :
        /\ call.include_subdirectories
        /\ Listable("sub")
        /\ Statable(f)
        /\ f.size = tree.sub[f.idx]
        /\ f.size > 0}

\* _reservoir_sample_files: the random keys can keep any max_files of the
\* eligible files, all of them when there are fewer.
_reservoir_sample_files(tree, call) ==
    {chosen \in SUBSET ReservoirEligible(tree, call) :
        Cardinality(chosen) = Min(call.max_files, Cardinality(ReservoirEligible(tree, call)))}

\* random.shuffle: every order of the chosen files.
Shuffles(chosen) ==
    {order \in [1..Cardinality(chosen) -> chosen] :
        \A i \in 1..Cardinality(chosen) : \A j \in 1..Cardinality(chosen) :
            (i # j) => order[i] # order[j]}

\* What the probe can rate a file's data at, in bits per byte.
ProbeEntropies == {1, 8}

SampleReturned(average_entropy, files_sampled, bytes_sampled) ==
    <<[average_entropy |-> average_entropy, sampled_files |-> files_sampled,
       sampled_bytes |-> bytes_sampled]>>

\* A call that would go on asking for the root's files to be passed over.
retry_call_flag_kept(call) == call

\* The arguments sample_directory_entropy calls itself with: the caller's,
\* but skip_root_files=False.
retry_call(call) == [call EXCEPT !.skip_root_files = FALSE]

\* sample_directory_entropy up to the loop: the argument check, the
\* reservoir, the retry with the root's files and the shuffle.
SampleStart ==
    /\ pc = "sample_start"
    /\ IF sample_call.max_files <= 0 \/ sample_call.max_bytes <= 0
       THEN /\ sample_result' = SampleReturned(None, 0, 0)
            /\ pc' = "sample_done"
            /\ UNCHANGED <<sample_call, sample_list, sample_index, root_files_skipped,
                           sample_count, sample_bytes, weighted_entropy, sample_reads,
                           sample_retries>>
       ELSE \E chosen \in _reservoir_sample_files(sample_tree, sample_call) :
              \E order \in Shuffles(chosen) :
                 LET skipped == /\ sample_call.skip_root_files
                                /\ Len(sample_tree.root) > 0
                                /\ Listable("root")
                 IN IF Len(order) = 0 /\ sample_call.skip_root_files /\ skipped
                    THEN /\ sample_call' = retry_call(sample_call)
                         /\ sample_retries' = sample_retries + 1
                         /\ pc' = "sample_start"
                         /\ UNCHANGED <<sample_list, sample_index, root_files_skipped,
                                        sample_count, sample_bytes, weighted_entropy,
                                        sample_result, sample_reads>>
                    ELSE /\ sample_list' = order
                         /\ sample_reads' = <<>>
                         /\ root_files_skipped' = skipped
                         /\ sample_index' = 0
                         /\ sample_count' = 0
                         /\ sample_bytes' = 0
                         /\ weighted_entropy' = 0
                         /\ pc' = "sample_loop"
                         /\ UNCHANGED <<sample_call, sample_result, sample_retries>>
    /\ UNCHANGED <<env_vars, min_savings_percent, iter_vars, directory_skips,
                   scan_stats_vars, entropy_stats_vars, entry, cli_vars, pool_vars, sample_tree,
                   sample_faults, reservoir_vars, window_vars, scan_vars, candidates, plan, filter_vars, dry_vars>>

\* The loop goes on: a file is left and so is budget.
SampleLoopContinues ==
    /\ sample_index < Len(sample_list)
    /\ sample_call.max_bytes - sample_bytes > 0
    /\ Min(sample_call.chunk_size, sample_call.max_bytes - sample_bytes) > 0

\* One iteration of the loop over the shuffled files.
SampleFile ==
    /\ pc = "sample_loop"
    /\ SampleLoopContinues
    /\ \E fault \in FileFaults : \E entropy \in ProbeEntropies :
         LET per_file_budget == Min(sample_call.chunk_size, sample_call.max_bytes - sample_bytes)
             sampled == _sample_file_entropy(sample_list[sample_index + 1].size,
                                             per_file_budget, entropy, fault)
         IN /\ sample_index' = sample_index + 1
            /\ sample_reads' = Append(sample_reads,
                                      [failed |-> fault # "none",
                                       weighted_entropy |-> sampled.weighted_entropy,
                                       sampled_bytes |-> sampled.sampled_bytes])
            /\ IF sampled.sampled_bytes = 0
               THEN UNCHANGED <<sample_count, sample_bytes, weighted_entropy>>
               ELSE /\ sample_count' = sample_count + 1
                    /\ sample_bytes' = sample_bytes + sampled.sampled_bytes
                    /\ weighted_entropy' = weighted_entropy + sampled.weighted_entropy
    /\ UNCHANGED <<pc, env_vars, min_savings_percent, iter_vars, directory_skips,
                   scan_stats_vars, entropy_stats_vars, entry, cli_vars, pool_vars, sample_tree,
                   sample_call, sample_list, root_files_skipped, sample_result, sample_retries, sample_faults, reservoir_vars, window_vars,
                   scan_vars, candidates, plan, filter_vars, dry_vars>>

\* After the loop: the retry with the root's files when nothing was read,
\* else the return of the average, in whole bits, or of None.
SampleReturn ==
    /\ pc = "sample_loop"
    /\ ~SampleLoopContinues
    /\ IF sample_bytes = 0
       THEN IF sample_call.skip_root_files /\ root_files_skipped
            THEN /\ sample_call' = retry_call(sample_call)
                 /\ sample_retries' = sample_retries + 1
                 /\ pc' = "sample_start"
                 /\ UNCHANGED sample_result
            ELSE /\ sample_result' = SampleReturned(None, sample_count, sample_bytes)
                 /\ pc' = "sample_done"
                 /\ UNCHANGED <<sample_call, sample_retries>>
       ELSE /\ sample_result' = SampleReturned(weighted_entropy \div sample_bytes,
                                               sample_count, sample_bytes)
            /\ pc' = "sample_done"
            /\ UNCHANGED <<sample_call, sample_retries>>
    /\ UNCHANGED <<env_vars, min_savings_percent, iter_vars, directory_skips,
                   scan_stats_vars, entropy_stats_vars, entry, cli_vars, pool_vars, sample_tree,
                   sample_list, sample_index, root_files_skipped, sample_count, sample_bytes,
                   weighted_entropy, sample_faults, reservoir_vars, window_vars, sample_reads, scan_vars, candidates, plan,
                   filter_vars, dry_vars>>

\* The file sizes, and the arguments, a call is made with.
SampleSizes == {0, 500, 40000}

\* What cannot be inspected in the sampled directory: nothing, the listing
\* of the root or of its subdirectory, or the stat of the first file of one.
SampleFaults ==
    { [listing |-> {}, stat |-> {}],
      [listing |-> {"root"}, stat |-> {}],
      [listing |-> {"sub"}, stat |-> {}],
      [listing |-> {}, stat |-> {"root"}],
      [listing |-> {}, stat |-> {"sub"}] }

SampleMaxFiles == {0, 1, 50}

SampleChunkSizes == {300, 65536}

SampleMaxBytes == {0, 1000, 4 * 1024 * 1024}

SeqsUpTo(S, n) == UNION {[1..k -> S] : k \in 0..n}

SampleInit ==
    /\ pc = "sample_start"
    /\ system_dirs = {}
    /\ unreadable = {}
    /\ has_callback = FALSE
    /\ collect_entropy = FALSE
    /\ min_savings_percent = 0
    /\ directory_skips = <<>>
    /\ entry = "sample_directory_entropy"
    /\ verbosity = 0
    /\ IterIdle
    /\ file_skips = <<>>
    /\ skipped_files = 0
    /\ errors = <<>>
    /\ total_original_size = 0
    /\ entropy_samples = <<>>
    /\ entropy_directories_sampled = 0
    /\ entropy_directories_below_threshold = 0
    /\ files = <<>>
    /\ processed = 0
    /\ ordered_candidates = <<>>
    /\ candidates = <<>>
    /\ plan = <<>>
    /\ directories = {}
    /\ root_skip_record = <<>>
    /\ NoEntropyCalls
    /\ evaluated = {}
    /\ skip_results = <<>>
    /\ sample_results = <<>>
    /\ skipped_directories = <<>>
    /\ eligible_directories = {base_dir}
    /\ eligible_files_found = 0
    /\ direct_file_bytes = [d \in Dirs |-> 0]
    /\ ordered_dirs = <<>>
    /\ children_map = [d \in Dirs |-> <<>>]
    /\ directories_to_sample = <<>>
    /\ raw_samples = <<>>
    /\ entropy_projected_original_bytes = 0
    /\ entropy_projected_compressed_bytes = 0
    /\ sample_tree \in [root : SeqsUpTo(SampleSizes, 1), sub : SeqsUpTo(SampleSizes, MaxSubFiles)]
    /\ sample_call \in [max_files : SampleMaxFiles, chunk_size : SampleChunkSizes,
                        max_bytes : SampleMaxBytes, skip_root_files : BOOLEAN,
                        include_subdirectories : BOOLEAN]
    /\ sample_list = <<>>
    /\ sample_index = 0
    /\ root_files_skipped = FALSE
    /\ sample_count = 0
    /\ sample_bytes = 0
    /\ weighted_entropy = 0
    /\ sample_result = <<>>
    /\ sample_retries = 0
    /\ sample_faults \in SampleFaults
    /\ sample_reads = <<>>
    /\ ReservoirIdle
    /\ WindowIdle
    /\ CliIdle
    /\ PoolIdle

SampleNext == SampleStart \/ SampleFile \/ SampleReturn

SpecSample == SampleInit /\ [][SampleNext]_vars

\* C9: whenever sample_directory_entropy returns with fewer than 1024
\* sampled bytes, it returns no average entropy.
C9_SamplerFloor ==
    (pc = "sample_done" /\ sample_result[1].sampled_bytes < 1024)
        => sample_result[1].average_entropy = None

RECURSIVE SumReads(_, _)
SumReads(reads, field) ==
    IF Len(reads) = 0 THEN 0 ELSE Head(reads)[field] + SumReads(Tail(reads), field)

\* C13: sample_directory_entropy always comes to a return, whatever cannot
\* be listed, stat'ed, opened or read: no file of a directory that cannot be
\* listed and no file that cannot be stat'ed is among the sampled ones; a
\* file whose sampling met an OSError adds nothing to the sampled bytes, the
\* weighted sum and the file count, which are exactly the sums over the
\* other files; and the loop goes on after it until the files or the byte
\* budget run out.
C13_SamplerNeverRaises ==
    /\ pc \in {"sample_start", "sample_loop"} => ENABLED SampleNext
    /\ pc = "sample_done" =>
          /\ Len(sample_result) = 1
          /\ sample_result[1].sampled_bytes = sample_bytes
          /\ sample_result[1].sampled_files = sample_count
          /\ sample_index = Len(sample_list) \/ sample_call.max_bytes - sample_bytes <= 0
    /\ \A i \in 1..Len(sample_list) :
          /\ Listable(sample_list[i].at)
          /\ Statable(sample_list[i])
    /\ pc \in {"sample_loop", "sample_done"} =>
          /\ Len(sample_reads) = sample_index
          /\ \A i \in 1..Len(sample_reads) :
                sample_reads[i].failed =>
                   sample_reads[i].sampled_bytes = 0 /\ sample_reads[i].weighted_entropy = 0
          /\ sample_bytes = SumReads(sample_reads, "sampled_bytes")
          /\ weighted_entropy = SumReads(sample_reads, "weighted_entropy")
          /\ sample_count = Cardinality({i \in 1..Len(sample_reads) : ~sample_reads[i].failed})

C13_Witness ==
    /\ pc = "sample_done"
    /\ sample_faults.stat = {"sub"}
    /\ Len(sample_tree.sub) = 2
    /\ Len(sample_reads) = 2
    /\ sample_reads[1].failed
    /\ sample_reads[2].sampled_bytes > 0
    /\ sample_result[1].average_entropy # None
    /\ sample_result[1].sampled_files = 1

\* ------------------------------------------------- the entry points' threshold
\* How far around the ends of [0, 90] the callers' values reach.
SavingsSlack == 3

\* The values a caller can supply for min_savings_percent: around both
\* ends of the range, inside it and far outside it.
SavingsInputs ==
    ((0 - SavingsSlack)..SavingsSlack) \cup ((90 - SavingsSlack)..(90 + SavingsSlack))
    \cup {0 - 500, 0 - 5, 45, 500}

\* config.clamp_savings_percent: the value brought into [0, 90].
clamp_savings_percent(value) == Max(0, Min(90, value))

_setup_context_as_given(value) == value

\* _setup_context: the threshold it returns and stores in
\* stats.min_savings_percent.
_setup_context(value) == clamp_savings_percent(value)

\* compress_directory(directory, min_savings_percent=...) or
\* entropy_dry_run(directory, min_savings_percent=...) called directly.
ApiCall ==
    /\ pc = "api_call"
    /\ min_savings_percent' = _setup_context(caller_input)
    /\ stats_min_savings_percent' = _setup_context(caller_input)
    /\ pc' = "context_ready"
    /\ UNCHANGED <<env_vars, iter_vars, directory_skips, scan_stats_vars, entropy_stats_vars,
                   entry, sampler_vars, pool_vars, args, caller_input, scan_vars, candidates,
                   plan, filter_vars, dry_vars>>

\* main._prepare_arguments: the default for an absent --min-savings, the
\* clamp of a given one, and after an interactive configuration the clamp of
\* what it left in args.
PrepareArguments ==
    /\ pc = "cli_parse"
    /\ \E default \in SavingsInputs : \E configured \in SavingsInputs :
         LET parsed == IF args.given THEN clamp_savings_percent(args.min_savings) ELSE default
             interactive_launch == ~args.directory
         IN /\ args' = [args EXCEPT !.min_savings =
                           IF interactive_launch THEN clamp_savings_percent(configured)
                           ELSE parsed]
            /\ caller_input' = IF interactive_launch THEN configured
                               ELSE IF args.given THEN args.min_savings ELSE default
    /\ pc' = "cli_run"
    /\ UNCHANGED <<env_vars, min_savings_percent, iter_vars, directory_skips,
                   scan_stats_vars, entropy_stats_vars, entry, sampler_vars, pool_vars,
                   stats_min_savings_percent, scan_vars, candidates, plan, filter_vars,
                   dry_vars>>

\* main.run_compression or main.run_entropy_dry_run: the core is entered
\* with args.min_savings.
RunFromCli ==
    /\ pc = "cli_run"
    /\ \E dry_run \in BOOLEAN :
         entry' = IF dry_run THEN "entropy_dry_run" ELSE "compress_directory"
    /\ min_savings_percent' = _setup_context(args.min_savings)
    /\ stats_min_savings_percent' = _setup_context(args.min_savings)
    /\ pc' = "context_ready"
    /\ UNCHANGED <<env_vars, iter_vars, directory_skips, scan_stats_vars, entropy_stats_vars,
                   sampler_vars, pool_vars, args, caller_input, scan_vars, candidates, plan,
                   filter_vars, dry_vars>>

EntryInit ==
    /\ pc \in {"api_call", "cli_parse"}
    /\ system_dirs = {}
    /\ unreadable = {}
    /\ has_callback = FALSE
    /\ collect_entropy = FALSE
    /\ min_savings_percent = 0
    /\ directory_skips = <<>>
    /\ entry \in {"compress_directory", "entropy_dry_run"}
    /\ verbosity = 0
    /\ IterIdle
    /\ file_skips = <<>>
    /\ skipped_files = 0
    /\ errors = <<>>
    /\ total_original_size = 0
    /\ entropy_samples = <<>>
    /\ entropy_directories_sampled = 0
    /\ entropy_directories_below_threshold = 0
    /\ files = <<>>
    /\ processed = 0
    /\ ordered_candidates = <<>>
    /\ candidates = <<>>
    /\ plan = <<>>
    /\ directories = {}
    /\ root_skip_record = <<>>
    /\ NoEntropyCalls
    /\ evaluated = {}
    /\ skip_results = <<>>
    /\ sample_results = <<>>
    /\ skipped_directories = <<>>
    /\ SamplerIdle
    /\ eligible_directories = {base_dir}
    /\ eligible_files_found = 0
    /\ direct_file_bytes = [d \in Dirs |-> 0]
    /\ ordered_dirs = <<>>
    /\ children_map = [d \in Dirs |-> <<>>]
    /\ directories_to_sample = <<>>
    /\ raw_samples = <<>>
    /\ entropy_projected_original_bytes = 0
    /\ entropy_projected_compressed_bytes = 0
    /\ caller_input \in SavingsInputs
    /\ IF pc = "api_call"
       THEN args = [min_savings |-> 0, given |-> FALSE, directory |-> TRUE]
       ELSE /\ entry = "compress_directory"
            /\ args \in [min_savings : {caller_input}, given : BOOLEAN, directory : BOOLEAN]
    /\ stats_min_savings_percent = 0
    /\ PoolIdle

EntryNext == ApiCall \/ PrepareArguments \/ RunFromCli

SpecEntry == EntryInit /\ [][EntryNext]_vars

\* C10: once an entry point has set up its context, the threshold the core
\* compares with estimated savings and the one stored in
\* stats.min_savings_percent are both the caller's value brought into
\* [0, 90]: 0 for a negative one, 90 for one above 90, the value itself
\* otherwise.
C10_Clamping ==
    pc = "context_ready" =>
        LET expected == IF caller_input < 0 THEN 0
                        ELSE IF caller_input > 90 THEN 90
                        ELSE caller_input
        IN /\ min_savings_percent = expected
           /\ stats_min_savings_percent = expected
           /\ min_savings_percent \in 0..90

C10_Witness ==
    /\ pc = "context_ready"
    /\ caller_input = 500
    /\ min_savings_percent = 90
    /\ stats_min_savings_percent = 90
    /\ args.given

\* ----------------------------------------------------------------- workers.py
\* What get_cpu_info() can report: nothing, two logical cores on one
\* physical core, four cores.
CpuTopologies ==
    { [physical |-> 0, logical |-> 0],
      [physical |-> 1, logical |-> 2],
      [physical |-> 4, logical |-> 4] }

_configure_runtime_uncapped(single) == None

\* main._configure_runtime: set_worker_cap(1 if args.single_worker else None).
_configure_runtime(single) == IF single THEN 1 ELSE None

\* workers._apply_worker_cap: the count under the process-wide cap, 1 at least.
_apply_worker_cap(value) ==
    IF worker_cap = None THEN Max(1, value) ELSE Max(1, Min(value, worker_cap))

\* The worker counts of the stages, each derived from the core counts.
entropy_worker_count == _apply_worker_cap(cpu_info.logical)

xp_worker_count == _apply_worker_cap(cpu_info.physical)

lzx_worker_count == _apply_worker_cap(cpu_info.physical \div 2)

\* compress_directory_legacy: _apply_worker_cap(max(physical_cores or 1, 1)).
legacy_worker_count ==
    _apply_worker_cap(Max(IF cpu_info.physical = 0 THEN 1 ELSE cpu_info.physical, 1))

\* ------------------------- compression_planner.evaluate_directories_parallel
\* list(directories): the directories in the order the set yields them.
ListOrders(S) ==
    {order \in [1..Cardinality(S) -> S] :
        \A i \in 1..Cardinality(S) : \A j \in 1..Cardinality(S) :
            (i # j) => order[i] # order[j]}

\* What evaluate_entropy_directory(directory, ...) can end with: the pair
\* of records for a sample, or an exception.
EvaluationOutcomes(directory) ==
    { [raised |-> FALSE,
       skip_record |-> evaluate_entropy_directory(directory, s, min_savings_percent),
       sample_record |-> evaluate_sample_record(directory, s)] : s \in SampleResults }
    \cup { [raised |-> TRUE, skip_record |-> <<>>, sample_record |-> <<>>] }

_on_complete_stale(directory) ==
    /\ processed_count' = Max(1, processed_count)
    /\ progress_calls' = Append(progress_calls,
                                [directory |-> directory,
                                 processed_count |-> Max(1, processed_count),
                                 total_count |-> Len(directory_list)])

\* _on_complete(directory): the counter goes up by one and progress_callback
\* is called with it.
_on_complete(directory) ==
    /\ processed_count' = processed_count + 1
    /\ progress_calls' = Append(progress_calls,
                                [directory |-> directory,
                                 processed_count |-> processed_count + 1,
                                 total_count |-> Len(directory_list)])

\* `if skip_record: skip_results[directory] = skip_record` and
\* `if sample_record: sample_results.append(sample_record)`.
collect_result(directory, result) ==
    /\ skip_results' = IF Len(result.skip_record) > 0
                       THEN MapPut(skip_results, directory, result.skip_record[1])
                       ELSE skip_results
    /\ sample_results' = sample_results \o result.sample_record

\* What a call of evaluate_directories_parallel leaves alone.
pool_frame ==
    <<env_vars, min_savings_percent, iter_vars, directory_skips, scan_stats_vars, entry,
      sampler_vars, cli_vars, scan_vars, candidates, plan, directories, root_skip_record,
      skipped_directories, dry_vars, single_worker, cpu_info, worker_cap>>

Running == {d \in Dirs : task_state[d] = "running"}

\* The start of evaluate_directories_parallel: the list, the worker count
\* and the choice between the loop in the calling thread and the pool, to
\* which every directory is submitted.
PoolStart ==
    /\ pc = "evaluate"
    /\ \E order \in ListOrders(directories \ {base_dir}) :
         /\ directory_list' = order
         /\ IF Len(order) = 0 \/ entropy_worker_count <= 1 \/ Len(order) = 1
            THEN /\ pc' = "sequential"
                 /\ UNCHANGED <<executor, task_state>>
            ELSE /\ pc' = "pool"
                 /\ executor' = "running"
                 /\ task_state' = [d \in Dirs |->
                                     IF d \in Range(order) THEN "queued" ELSE "none"]
    /\ UNCHANGED <<task_runs, future_result, processed_count, progress_calls, evaluated,
                   skip_results, sample_results, entropy_stats_vars, entropy_calls, pool_frame>>

\* The loop in the calling thread takes the next directory of the list.
SequentialStart ==
    /\ pc = "sequential"
    /\ \E i \in 1..Len(directory_list) :
         /\ task_state[directory_list[i]] = "none"
         /\ \A j \in 1..(i - 1) : task_state[directory_list[j]] = "gathered"
         /\ task_state' = [task_state EXCEPT ![directory_list[i]] = "running"]
         /\ task_runs' = [task_runs EXCEPT ![directory_list[i]] = @ + 1]
         /\ entropy_calls' = [entropy_calls EXCEPT ![directory_list[i]].recursive = @ + 1]
    /\ UNCHANGED <<pc, directory_list, executor, future_result, processed_count,
                   progress_calls, evaluated, skip_results, sample_results,
                   entropy_stats_vars, pool_frame>>

\* Its evaluation ends: an exception leaves the function, a result is
\* counted by _on_complete and collected.
SequentialFinish ==
    /\ pc = "sequential"
    /\ \E directory \in Running :
         \E result \in EvaluationOutcomes(directory) :
            /\ future_result' = MapPut(future_result, directory, result)
            /\ IF result.raised
               THEN /\ pc' = "raised"
                    /\ task_state' = [task_state EXCEPT ![directory] = "finished"]
                    /\ UNCHANGED <<processed_count, progress_calls, evaluated, skip_results,
                                   sample_results>>
               ELSE /\ _on_complete(directory)
                    /\ collect_result(directory, result)
                    /\ task_state' = [task_state EXCEPT ![directory] = "gathered"]
                    /\ evaluated' = evaluated \cup {directory}
                    /\ UNCHANGED pc
    /\ UNCHANGED <<directory_list, executor, task_runs, entropy_stats_vars, entropy_calls, pool_frame>>

max_workers_unbounded == Len(directory_list)

\* ThreadPoolExecutor(max_workers=worker_count).
max_workers == entropy_worker_count

\* A worker thread of the pool takes the oldest queued task; the pool never
\* has more than max_workers threads and each runs one task at a time.
TaskStart ==
    /\ executor = "running"
    /\ Cardinality(Running) < max_workers
    /\ \E i \in 1..Len(directory_list) :
         /\ task_state[directory_list[i]] = "queued"
         /\ \A j \in 1..(i - 1) : task_state[directory_list[j]] # "queued"
         /\ task_state' = [task_state EXCEPT ![directory_list[i]] = "running"]
         /\ task_runs' = [task_runs EXCEPT ![directory_list[i]] = @ + 1]
         /\ entropy_calls' = [entropy_calls EXCEPT ![directory_list[i]].recursive = @ + 1]
    /\ UNCHANGED <<pc, directory_list, executor, future_result, processed_count,
                   progress_calls, evaluated, skip_results, sample_results,
                   entropy_stats_vars, pool_frame>>

\* A running task ends and its future holds the result or the exception.
TaskFinish ==
    /\ executor = "running"
    /\ \E directory \in Running :
         \E result \in EvaluationOutcomes(directory) :
            /\ future_result' = MapPut(future_result, directory, result)
            /\ task_state' = [task_state EXCEPT ![directory] = "finished"]
    /\ UNCHANGED <<pc, directory_list, executor, task_runs, processed_count, progress_calls,
                   evaluated, skip_results, sample_results, entropy_stats_vars, entropy_calls, pool_frame>>

\* One iteration of the as_completed loop in the calling thread: a finished
\* future is counted by _on_complete, and its result is collected unless
\* future.result() raises.
Gather ==
    /\ pc = "pool"
    /\ \E directory \in Range(directory_list) :
         /\ task_state[directory] = "finished"
         /\ _on_complete(directory)
         /\ IF future_result[directory].raised
            THEN UNCHANGED <<skip_results, sample_results>>
            ELSE collect_result(directory, future_result[directory])
         /\ task_state' = [task_state EXCEPT ![directory] = "gathered"]
         /\ evaluated' = evaluated \cup {directory}
    /\ UNCHANGED <<pc, directory_list, executor, task_runs, future_result,
                   entropy_stats_vars, entropy_calls, pool_frame>>

every_directory_gathered_first ==
    \E d \in Range(directory_list) : task_state[d] = "gathered"

\* The loop over directory_list, or over as_completed(future_map), is over.
every_directory_gathered ==
    \A d \in Range(directory_list) : task_state[d] = "gathered"

\* The pool is shut down, evaluate_directories_parallel returns, and the
\* caller appends the sample records to stats.
PoolReturn ==
    /\ pc \in {"sequential", "pool"}
    /\ every_directory_gathered
    /\ executor' = IF executor = "running" THEN "shutdown" ELSE executor
    /\ record_sample_results
    /\ pc' = "dominance"
    /\ UNCHANGED <<directory_list, task_state, task_runs, future_result, processed_count,
                   progress_calls, evaluated, skip_results, sample_results, entropy_calls, pool_frame>>

\* plan_compression's scan has accepted every file of the walk.
AllAccepted ==
    /\ files = all_files
    /\ processed = Len(files)
    /\ ordered_candidates = [i \in 1..Len(files) |->
                                [index |-> i - 1, path |-> files[i],
                                 file_size |-> FileSize(files[i])]]
    /\ candidates = SortedCandidates(ordered_candidates)
    /\ total_original_size = SumSizes(files)
    /\ file_skips = <<>>
    /\ skipped_files = 0
    /\ errors = <<>>
    /\ directory_skips = all_files_skips

\* compress_directory at the call of _filter_high_entropy_directories, after
\* a scan that accepted every file; the worker cap is the one
\* _configure_runtime set.
PoolInit ==
    /\ pc = "filter"
    /\ system_dirs \in SUBSET (Dirs \ {base_dir})
    /\ unreadable = {}
    /\ has_callback = FALSE
    /\ collect_entropy = FALSE
    /\ min_savings_percent \in Thresholds
    /\ entry = "compress_directory"
    /\ verbosity = 0
    /\ IterIdle
    /\ AllAccepted
    /\ entropy_samples = <<>>
    /\ entropy_directories_sampled = 0
    /\ entropy_directories_below_threshold = 0
    /\ plan = <<>>
    /\ directories = {}
    /\ root_skip_record = <<>>
    /\ NoEntropyCalls
    /\ evaluated = {}
    /\ skip_results = <<>>
    /\ sample_results = <<>>
    /\ skipped_directories = <<>>
    /\ SamplerIdle
    /\ CliIdle
    /\ eligible_directories = {base_dir}
    /\ eligible_files_found = 0
    /\ direct_file_bytes = [d \in Dirs |-> 0]
    /\ ordered_dirs = <<>>
    /\ children_map = [d \in Dirs |-> <<>>]
    /\ directories_to_sample = <<>>
    /\ raw_samples = <<>>
    /\ entropy_projected_original_bytes = 0
    /\ entropy_projected_compressed_bytes = 0
    /\ single_worker \in BOOLEAN
    /\ cpu_info \in CpuTopologies
    /\ worker_cap = _configure_runtime(single_worker)
    /\ directory_list = <<>>
    /\ executor = "none"
    /\ task_state = [d \in Dirs |-> "none"]
    /\ task_runs = [d \in Dirs |-> 0]
    /\ future_result = <<>>
    /\ processed_count = 0
    /\ progress_calls = <<>>

PoolNext ==
    \/ FilterReturnEarly
    \/ FilterRoot
    \/ PoolStart
    \/ SequentialStart
    \/ SequentialFinish
    \/ TaskStart
    \/ TaskFinish
    \/ Gather
    \/ PoolReturn
    \/ DominancePass
    \/ FilterCandidates

SpecPool == PoolInit /\ [][PoolNext]_vars

\* In compress_directory, a scan without a file skip has accepted every file.
ScanAgrees ==
    (entry = "compress_directory" /\ pc = "filter" /\ Len(file_skips) = 0) => AllAccepted

\* ------------------------------------------- the evaluation phase's claims
\* The directories whose evaluation ended with an exception.
FailedDirectories == {d \in DOMAIN future_result : future_result[d].raised}

\* evaluate_directories_parallel has returned to the filter.
PhaseReturned == pc \in {"dominance", "filter_candidates", "planned"} /\ Len(directory_list) > 0

\* C12: an exception in one directory's evaluation never leaves
\* evaluate_directories_parallel, on the pool or in the calling thread; when
\* planning is over, the failing directory has neither a skip record nor a
\* sample record, its files are in the plan unless a directory above it is
\* skipped, and every other directory's result was collected.
C12_EvaluationFailureNeverAborts ==
    /\ pc # "raised"
    /\ (pc = "planned" /\ Len(directory_list) > 0) =>
          /\ \A d \in FailedDirectories :
                /\ d \notin DOMAIN skip_results
                /\ \A i \in 1..Len(sample_results) : sample_results[i].path # d
                /\ \A i \in 1..Len(entropy_samples) : entropy_samples[i].path # d
                /\ \A k \in 1..Len(directory_skips) : directory_skips[k].path # d
                /\ \A i \in 1..Len(candidates) :
                      (candidates[i].path.dir = d /\ SkippedChain(d) = {})
                         => InPlan(candidates[i])
          /\ \A d \in Range(directory_list) \ FailedDirectories :
                /\ d \in DOMAIN future_result
                /\ (d \in DOMAIN skip_results) <=> Len(future_result[d].skip_record) > 0
                /\ \A i \in 1..Len(future_result[d].sample_record) :
                      \E j \in 1..Len(entropy_samples) :
                         entropy_samples[j] = future_result[d].sample_record[i]

\* The part of C12 the pool keeps: the same with the exceptions of the
\* calling thread's loop left out.
PoolFailureContained ==
    (executor # "none") => C12_EvaluationFailureNeverAborts

PoolFailureContained_Witness ==
    /\ pc = "planned"
    /\ executor = "shutdown"
    /\ <<"r", "a">> \in FailedDirectories
    /\ <<"r", "b">> \in DOMAIN skip_results
    /\ \E i \in 1..Len(plan) : plan[i].path.dir = <<"r", "a">>

\* The stats as the filter left them before the evaluation phase: the
\* scan's numbers, the walk's records and at most the root's sample and
\* skip record.
StatsAsBeforePhase ==
    /\ Len(entropy_samples) <= 1
    /\ \A i \in 1..Len(entropy_samples) : entropy_samples[i].path = base_dir
    /\ entropy_directories_sampled = Len(entropy_samples)
    /\ entropy_directories_below_threshold = Len(root_skip_record)
    /\ directory_skips = all_files_skips \o root_skip_record
    /\ file_skips = <<>>
    /\ skipped_files = 0
    /\ errors = <<>>
    /\ total_original_size = SumSizes(files)

\* stats holds a record that came out of the evaluation phase.
PhaseRecordInStats ==
    \/ \E i \in 1..Len(entropy_samples) : entropy_samples[i].path # base_dir
    \/ \E k \in 1..Len(directory_skips) :
          directory_skips[k].category = "high_entropy" /\ directory_skips[k].path # base_dir

\* C14: while the evaluation phase runs, whatever the tasks do, stats is as
\* it was before the phase; a record of the phase is in stats only when the
\* function has returned, every directory's evaluation is finished and
\* gathered, and no task is queued or running.
C14_SingleWriter ==
    /\ pc \in {"evaluate", "sequential", "pool", "raised"} => StatsAsBeforePhase
    /\ PhaseRecordInStats =>
          /\ PhaseReturned
          /\ \A d \in Range(directory_list) : task_state[d] = "gathered"
          /\ \A d \in Dirs : task_state[d] \notin {"queued", "running", "finished"}

C14_Witness ==
    /\ pc = "pool"
    /\ StatsAsBeforePhase
    /\ Len(entropy_samples) = 1
    /\ Len(sample_results) > 0
    /\ <<"r", "a">> \in DOMAIN skip_results
    /\ task_state[<<"r", "b">>] = "running"

\* C15: the calls of the progress callback carry the counts 1, 2, ... in
\* order and the length of the list as the total, each for another
\* directory whose evaluation is over; the counter equals the number of
\* calls; on the pool every gathered directory, failed or not, has its call;
\* and once the function has returned there are exactly as many calls as
\* directories.
C15_CompletionCounter ==
    /\ processed_count = Len(progress_calls)
    /\ \A i \in 1..Len(progress_calls) :
          /\ progress_calls[i].processed_count = i
          /\ progress_calls[i].total_count = Len(directory_list)
          /\ progress_calls[i].directory \in Range(directory_list)
          /\ task_state[progress_calls[i].directory] = "gathered"
          /\ \A j \in 1..Len(progress_calls) :
                (i # j) => progress_calls[i].directory # progress_calls[j].directory
    /\ {progress_calls[i].directory : i \in 1..Len(progress_calls)}
          = {d \in Dirs : task_state[d] = "gathered"}
    /\ PhaseReturned =>
          /\ Len(progress_calls) = Len(directory_list)
          /\ processed_count = Len(directory_list)

C15_Witness ==
    /\ PhaseReturned
    /\ executor = "shutdown"
    /\ Len(progress_calls) = 3
    /\ progress_calls[1].directory = <<"r", "a", "c">>
    /\ progress_calls[3].directory = <<"r", "a">>
    /\ directory_list[1] = <<"r", "a">>
    /\ FailedDirectories # {}

\* C16: never more tasks run than entropy_worker_count(); no directory
\* outside the list is evaluated and none twice; and once the function has
\* returned every directory of the list was evaluated exactly once and no
\* task is queued, running or ungathered.
C16_BoundedScatterGather ==
    /\ Cardinality(Running) <= entropy_worker_count
    /\ \A d \in Dirs :
          /\ task_runs[d] <= 1
          /\ (d \notin Range(directory_list)) => task_runs[d] = 0
          /\ (task_runs[d] = 1) <=> task_state[d] \in {"running", "finished", "gathered"}
    /\ \A i \in 1..Len(directory_list) : \A j \in 1..Len(directory_list) :
          (i # j) => directory_list[i] # directory_list[j]
    /\ PhaseReturned =>
          /\ Range(directory_list) = directories \ {base_dir}
          /\ \A d \in Range(directory_list) : task_runs[d] = 1 /\ task_state[d] = "gathered"
          /\ Running = {}
          /\ executor # "running"

C16_Witness ==
    /\ pc = "pool"
    /\ entropy_worker_count = 2
    /\ Len(directory_list) = 3
    /\ Cardinality(Running) = 2
    /\ \E d \in Dirs : task_state[d] = "queued"

\* C17: with the single-worker override every stage's worker count is 1
\* whatever the cores, no pool is ever created and at most one evaluation
\* is in progress at a time; without it every worker count is 1 at least.
C17_SingleWorker ==
    /\ single_worker =>
          /\ entropy_worker_count = 1
          /\ xp_worker_count = 1
          /\ lzx_worker_count = 1
          /\ legacy_worker_count = 1
          /\ executor = "none"
          /\ pc # "pool"
          /\ Cardinality(Running) <= 1
          /\ \A d \in Dirs : task_state[d] \notin {"queued", "finished"} \/ pc = "raised"
    /\ entropy_worker_count >= 1
    /\ xp_worker_count >= 1
    /\ lzx_worker_count >= 1
    /\ legacy_worker_count >= 1

C17_Witness ==
    /\ single_worker
    /\ cpu_info.logical = 4
    /\ pc = "sequential"
    /\ Len(directory_list) = 3
    /\ Cardinality(Running) = 1
    /\ \E d \in Dirs : task_state[d] = "gathered"

\* --------------------------------------------- order and conservation claims
\* The place of a file in the sequence plan_compression was given.
Position(path) == CHOOSE k \in 1..Len(files) : files[k] = path

\* The entries of seq are files of the input, in the order of the input.
InDiscoveryOrder(seq) ==
    /\ \A i \in 1..Len(seq) : \E k \in 1..Len(files) : files[k] = seq[i].path
    /\ \A i, j \in 1..Len(seq) : i < j => Position(seq[i].path) < Position(seq[j].path)

\* plan_compression has returned to compress_directory.
PlanReturned == pc = "planned" /\ entry = "compress_directory"

\* C18: the candidates of plan_compression are in discovery order, and the
\* plan it returns is a subsequence of them: every entry of the plan is a
\* candidate and the entries keep the order in which the walker yielded
\* them, so any tier selected from the plan is in discovery order as well.
C18_DiscoveryOrder ==
    /\ InDiscoveryOrder(candidates)
    /\ PlanReturned =>
          /\ InDiscoveryOrder(plan)
          /\ \A i \in 1..Len(plan) : \E k \in 1..Len(candidates) : candidates[k] = plan[i]

C18_Witness ==
    /\ PlanReturned
    /\ Len(candidates) = 5
    /\ <<"r", "a">> \in DOMAIN skipped_directories
    /\ Len(plan) = 3
    /\ plan[3].path.dir = <<"r", "b">>

\* How many entries of seq are about the file path.
Mentions(seq, path) == Cardinality({i \in 1..Len(seq) : seq[i].path = path})

\* The candidates that lie in d or below it.
CandidatesUnder(d) == {i \in 1..Len(candidates) : IsUnder(candidates[i].path.dir, d)}

\* The FileSkipRecords of candidates that lie in d or below it.
CandidateSkipsUnder(d) ==
    {j \in 1..Len(file_skips) :
        /\ IsUnder(file_skips[j].path.dir, d)
        /\ \E i \in 1..Len(candidates) : candidates[i].path = file_skips[j].path}

\* C19: when plan_compression has returned, every file it was given is in
\* the plan or has one FileSkipRecord, never both and never neither;
\* skipped_files counts one per record, so the plan and the counter add up
\* to the input; and each skipped directory accounts for as many skips as it
\* had candidates removed: all of them for a registered directory, and for
\* the root-level record the direct candidates that left the plan.
C19_Conservation ==
    PlanReturned =>
        /\ \A k \in 1..Len(files) : Mentions(plan, files[k]) + Mentions(file_skips, files[k]) = 1
        /\ skipped_files = Len(file_skips)
        /\ Len(plan) + skipped_files = Len(files)
        /\ \A d \in DOMAIN skipped_directories :
              /\ \A i \in CandidatesUnder(d) : ~InPlan(candidates[i])
              /\ Cardinality(CandidateSkipsUnder(d)) = Cardinality(CandidatesUnder(d))
        /\ Len(root_skip_record) > 0 =>
              Cardinality({j \in CandidateSkipsUnder(base_dir) : file_skips[j].path.dir = base_dir})
              = Cardinality({i \in CandidatesUnder(base_dir) :
                               /\ candidates[i].path.dir = base_dir
                               /\ ~InPlan(candidates[i])})

C19_Witness ==
    /\ PlanReturned
    /\ Len(files) = 5
    /\ Len(errors) = 1
    /\ Cardinality(CandidatesUnder(<<"r", "a">>)) = 2
    /\ <<"r", "a">> \in DOMAIN skipped_directories
    /\ skipped_files = 3
    /\ Len(plan) = 2

\* No two records of stats.directory_skips are about the same directory.
OneRecordPerPath ==
    \A i, j \in 1..Len(directory_skips) :
        directory_skips[i].path = directory_skips[j].path => i = j

\* C20: at the end of a run stats.directory_skips holds at most one
\* DirectorySkipRecord per directory path, however often
\* maybe_skip_directory was called for the directory.
C20_OneRecordPerDirectory == pc = "done" => OneRecordPerPath

\* The same for compress_directory, whose walk is the only place that asks
\* maybe_skip_directory: one record per path when planning has returned.
CompressOneRecordPerDirectory == PlanReturned => OneRecordPerPath

CompressOneRecordPerDirectory_Witness ==
    /\ PlanReturned
    /\ \E i \in 1..Len(directory_skips) : directory_skips[i].category = "system"
    /\ \E i \in 1..Len(directory_skips) : directory_skips[i].path = base_dir
    /\ \E i \in 1..Len(directory_skips) :
          /\ directory_skips[i].category = "high_entropy"
          /\ directory_skips[i].path # base_dir

\* ------------------------------------------------------ error handling claims
\* The directories the walk popped and could not list.
ListingFailed == {d \in unreadable : d \in pushed /\ d \notin Range(stack)}

\* stats holds a trace of the directory d: a DirectorySkipRecord or an
\* entry of stats.errors.
TracedInStats(d) ==
    \/ \E i \in 1..Len(directory_skips) : directory_skips[i].path = d
    \/ \E i \in 1..Len(errors) : errors[i] = d

\* C21: a filesystem error met while walking or scanning is recovered where
\* it happens, leaves a skip or error record in stats and never ends the
\* run.  For the walk: when it has ended, every directory whose listing
\* failed has a record in stats.
C21_FilesystemErrorsRecorded ==
    pc = "walk_done" => \A d \in ListingFailed : TracedInStats(d)

\* The walk goes on past a directory it cannot list: when it has ended,
\* every directory that was pushed has been taken off the stack again, and
\* every listable one of them was listed.
WalkRecoversLocally ==
    pc = "walk_done" =>
        /\ stack = <<>>
        /\ \A d \in pushed \ unreadable : d \in listed

WalkRecoversLocally_Witness ==
    /\ pc = "walk_done"
    /\ <<"r", "a">> \in ListingFailed
    /\ <<"r", "b">> \in listed
    /\ \E i \in 1..Len(yielded) : yielded[i].dir = <<"r", "b">>

\* The scan records a file whose stat failed and goes on: the file is in
\* stats.errors and has a FileSkipRecord of category error, is no
\* candidate, and the scan reaches the end of its input.
ScanErrorRecorded ==
    /\ \A i \in 1..Len(errors) :
          /\ \E j \in 1..Len(file_skips) :
                file_skips[j].path = errors[i] /\ file_skips[j].category = "error"
          /\ \A k \in 1..Len(ordered_candidates) : ordered_candidates[k].path # errors[i]
    /\ PlanReturned => processed = Len(files)

ScanErrorRecorded_Witness ==
    /\ PlanReturned
    /\ Len(errors) = 1
    /\ errors[1] = files[1]
    /\ Len(plan) = 4

\* ------------------------------------------------------- evaluation claims
\* The sample records evaluate_directories_parallel collected for d.
SampleRecordsOf(d) == {i \in 1..Len(sample_results) : sample_results[i].path = d}

\* The skip record and the sample record describe the same sample.
SameSample(skip_record, sample_record) ==
    /\ skip_record.path = sample_record.path
    /\ skip_record.average_entropy = sample_record.average_entropy
    /\ skip_record.estimated_savings = sample_record.estimated_savings
    /\ skip_record.sampled_files = sample_record.sampled_files
    /\ skip_record.sampled_bytes = sample_record.sampled_bytes

EntropySamplesOf(d) == {i \in 1..Len(entropy_samples) : entropy_samples[i].path = d}

\* The directories whose own skip record the dominance pass discarded.
Dominated == DOMAIN skip_results \ DOMAIN skipped_directories

CandidateParents == {candidates[i].path.dir : i \in 1..Len(candidates)}

\* evaluate_directories_parallel has returned to the filter.
EvaluationReturned ==
    \/ pc \in {"dominance", "filter_candidates"}
    \/ PlanReturned /\ directories # {}

\* C24: the filter evaluates recursively exactly the parent directories of
\* the candidates other than the base, each once; it samples the base,
\* without its subdirectories and once, exactly when a candidate lies
\* directly in it; a directory with no candidate as a direct child is
\* never evaluated; and a filter that returns early samples nothing.
C24_EvaluatedDirectories ==
    /\ \A d \in Dirs \ {base_dir} :
          /\ entropy_calls[d].flat = 0
          /\ entropy_calls[d].recursive <= 1
          /\ d \notin CandidateParents => entropy_calls[d].recursive = 0
    /\ entropy_calls[base_dir].recursive = 0
    /\ entropy_calls[base_dir].flat <= 1
    /\ (pc = "evaluate" \/ EvaluationReturned) =>
          (entropy_calls[base_dir].flat = 1 <=> base_dir \in CandidateParents)
    /\ EvaluationReturned =>
          /\ directories = CandidateParents \cup {base_dir}
          /\ evaluated = CandidateParents \ {base_dir}
          /\ \A d \in CandidateParents \ {base_dir} : entropy_calls[d].recursive = 1
    /\ (PlanReturned /\ directories = {}) => NoEntropyCalls

C24_Witness ==
    /\ pc = "dominance"
    /\ CandidateParents = {base_dir, <<"r", "a", "c">>}
    /\ \E k \in 1..Len(file_skips) : file_skips[k].path.dir = <<"r", "a">>
    /\ entropy_calls[<<"r", "a">>].recursive = 0
    /\ entropy_calls[<<"r", "a", "c">>].recursive = 1
    /\ entropy_calls[base_dir].flat = 1

\* ------------------------------------------------------- scheduling claims
\* The skip record each directory's evaluation produced, whatever the order
\* in which the evaluations ended.
ResultRecords ==
    [d \in {e \in DOMAIN future_result : Len(future_result[e].skip_record) > 0} |->
        future_result[d].skip_record[1]]

\* The skip map and the records the dominance pass makes of those results.
ExpectedDominance ==
    dominance_loop(sorted_directories(directories), ResultRecords,
                   [skipped |-> <<>>, appended |-> <<>>])

\* The plan and the file skips the filter loop makes of them.
ExpectedFilter ==
    IF DOMAIN ExpectedDominance.skipped = {}
    THEN [filtered |-> candidates, skips |-> <<>>]
    ELSE filter_loop(candidates, root_skip_record, ExpectedDominance.skipped)

\* The run's results are the ones the per-directory results determine.
ResultsDetermined ==
    /\ skip_results = ResultRecords
    /\ skipped_directories = ExpectedDominance.skipped
    /\ directory_skips = all_files_skips \o root_skip_record \o ExpectedDominance.appended
    /\ file_skips = ExpectedFilter.skips
    /\ plan = ExpectedFilter.filtered

\* The filter's call of evaluate_directories_parallel is over: planning has
\* returned, or an exception has left the function.
EvaluationRunOver == Len(directory_list) > 0 /\ pc \in {"planned", "raised"}

\* C25: for given per-directory evaluation results the skip map, the
\* DirectorySkipRecords appended to stats, the file skips and the plan are
\* the same for every order in which the tasks complete and the same on the
\* pool and in the single-worker loop: every run that is over has returned
\* the plan those results determine.
C25_SchedulingIndependent ==
    EvaluationRunOver => (pc = "planned" /\ ResultsDetermined)

\* The same for the runs that return: whichever path ran and in whichever
\* order the evaluations were gathered, the results are the determined ones.
ReturnedResultsDetermined ==
    (PlanReturned /\ Len(directory_list) > 0) => ResultsDetermined

ReturnedResultsDetermined_Witness ==
    /\ PlanReturned
    /\ executor = "shutdown"
    /\ Len(directory_list) = 3
    /\ Len(progress_calls) = 3
    /\ progress_calls[1].directory # directory_list[1]
    /\ <<"r", "a">> \in DOMAIN skipped_directories
    /\ <<"r", "a", "c">> \in DOMAIN skip_results
    /\ Len(plan) = 3

\* ------------------------------------------- entropy.py: the reservoir
\* The keys math.log(u) / file_size can take, by their order.
ReservoirKeys == 1..3

\* os.scandir(current): the files of the directory, and for the root its
\* subdirectory.
EntriesOf(at) ==
    IF at = "root"
    THEN [i \in 1..Len(sample_tree.root) |->
             [kind |-> "file", at |-> "root", idx |-> i, size |-> sample_tree.root[i]]]
         \o <<[kind |-> "dir", at |-> "sub", idx |-> 0, size |-> 0]>>
    ELSE [i \in 1..Len(sample_tree.sub) |->
             [kind |-> "file", at |-> "sub", idx |-> i, size |-> sample_tree.sub[i]]]

\* The file of a directory entry, as the sampler refers to it.
FileOf(e) == [at |-> e.at, idx |-> e.idx, size |-> e.size]

\* The smallest key of the heap, reservoir[0][0].
SmallestKey(heap) == CHOOSE k \in {x.key : x \in heap} : \A x \in heap : k <= x.key

\* The heap pushing every item.
reservoir_offer_unbounded(heap, item, max_files) == {heap \cup {item}}

\* The heap after a file with its key was offered: pushed while there is
\* room, put in the place of a smallest item when its key is larger than
\* the smallest key, dropped otherwise.  Which of several smallest items
\* goes depends on the paths and is left open.
reservoir_offer(heap, item, max_files) ==
    IF Cardinality(heap) < max_files THEN {heap \cup {item}}
    ELSE IF item.key > SmallestKey(heap)
    THEN {(heap \ {x}) \cup {item} : x \in {y \in heap : y.key = SmallestKey(heap)}}
    ELSE {heap}

\* What a call of _reservoir_sample_files leaves alone.
reservoir_frame ==
    <<env_vars, min_savings_percent, iter_vars, directory_skips, scan_stats_vars,
      entropy_stats_vars, entry, cli_vars, pool_vars, scan_vars, candidates, plan,
      filter_vars, dry_vars, sample_tree, sample_call, sample_list, sample_index,
      sample_count, sample_bytes, weighted_entropy, sample_result, sample_retries,
      sample_faults, sample_reads, window_vars>>

\* _reservoir_sample_files up to the loop.
ReservoirStart ==
    /\ pc = "reservoir_start"
    /\ IF sample_call.max_files <= 0
       THEN /\ pc' = "reservoir_done"
            /\ UNCHANGED reservoir_pending
       ELSE /\ pc' = "reservoir_loop"
            /\ reservoir_pending' = <<"root">>
    /\ UNCHANGED <<reservoir_entries, reservoir, weighed, root_files_skipped, reservoir_frame>>

\* The next directory is taken from pending and listed; a listing that
\* raises OSError leaves nothing to visit.
ReservoirList ==
    /\ pc = "reservoir_loop"
    /\ Len(reservoir_entries) = 0
    /\ Len(reservoir_pending) > 0
    /\ reservoir_pending' = Tail(reservoir_pending)
    /\ reservoir_entries' = IF Head(reservoir_pending) \in sample_faults.listing
                            THEN <<>>
                            ELSE EntriesOf(Head(reservoir_pending))
    /\ UNCHANGED <<pc, reservoir, weighed, root_files_skipped, reservoir_frame>>

\* One iteration of the loop over the entries: a directory is queued, a
\* file is passed over or offered to the heap with the key drawn for it.
ReservoirEntry ==
    /\ pc = "reservoir_loop"
    /\ Len(reservoir_entries) > 0
    /\ reservoir_entries' = Tail(reservoir_entries)
    /\ LET e == Head(reservoir_entries)
       IN IF e.kind = "dir"
          THEN /\ reservoir_pending' = IF sample_call.include_subdirectories
                                       THEN Append(reservoir_pending, e.at)
                                       ELSE reservoir_pending
               /\ UNCHANGED <<reservoir, weighed, root_files_skipped>>
          ELSE IF sample_call.skip_root_files /\ e.at = "root"
          THEN /\ root_files_skipped' = TRUE
               /\ UNCHANGED <<reservoir_pending, reservoir, weighed>>
          ELSE IF ~Statable(FileOf(e)) \/ e.size <= 0
          THEN UNCHANGED <<reservoir_pending, reservoir, weighed, root_files_skipped>>
          ELSE \E key \in ReservoirKeys :
                 \E next \in reservoir_offer(reservoir, [key |-> key, f |-> FileOf(e)],
                                             sample_call.max_files) :
                    /\ reservoir' = next
                    /\ weighed' = Append(weighed, [key |-> key, f |-> FileOf(e)])
                    /\ UNCHANGED <<reservoir_pending, root_files_skipped>>
    /\ UNCHANGED <<pc, reservoir_frame>>

\* pending is empty: the paths of the heap are returned.
ReservoirReturn ==
    /\ pc = "reservoir_loop"
    /\ Len(reservoir_entries) = 0
    /\ Len(reservoir_pending) = 0
    /\ pc' = "reservoir_done"
    /\ UNCHANGED <<reservoir_vars, root_files_skipped, reservoir_frame>>

\* The sizes of the files of a sampled tree: empty or not.
ReservoirSizes == {0, 500}

ReservoirMaxFiles == 0..2

ReservoirInit ==
    /\ pc = "reservoir_start"
    /\ system_dirs = {}
    /\ unreadable = {}
    /\ has_callback = FALSE
    /\ collect_entropy = FALSE
    /\ min_savings_percent = 0
    /\ directory_skips = <<>>
    /\ entry = "_reservoir_sample_files"
    /\ verbosity = 0
    /\ IterIdle
    /\ file_skips = <<>>
    /\ skipped_files = 0
    /\ errors = <<>>
    /\ total_original_size = 0
    /\ entropy_samples = <<>>
    /\ entropy_directories_sampled = 0
    /\ entropy_directories_below_threshold = 0
    /\ files = <<>>
    /\ processed = 0
    /\ ordered_candidates = <<>>
    /\ candidates = <<>>
    /\ plan = <<>>
    /\ directories = {}
    /\ root_skip_record = <<>>
    /\ NoEntropyCalls
    /\ evaluated = {}
    /\ skip_results = <<>>
    /\ sample_results = <<>>
    /\ skipped_directories = <<>>
    /\ eligible_directories = {base_dir}
    /\ eligible_files_found = 0
    /\ direct_file_bytes = [d \in Dirs |-> 0]
    /\ ordered_dirs = <<>>
    /\ children_map = [d \in Dirs |-> <<>>]
    /\ directories_to_sample = <<>>
    /\ raw_samples = <<>>
    /\ entropy_projected_original_bytes = 0
    /\ entropy_projected_compressed_bytes = 0
    /\ sample_tree \in [root : SeqsUpTo(ReservoirSizes, 1),
                         sub : SeqsUpTo(ReservoirSizes, MaxSubFiles)]
    /\ sample_call \in [max_files : ReservoirMaxFiles, chunk_size : {65536},
                         max_bytes : {4 * 1024 * 1024}, skip_root_files : BOOLEAN,
                         include_subdirectories : BOOLEAN]
    /\ sample_list = <<>>
    /\ sample_index = 0
    /\ root_files_skipped = FALSE
    /\ sample_count = 0
    /\ sample_bytes = 0
    /\ weighed = <<>>
    /\ weighted_entropy = 0
    /\ sample_result = <<>>
    /\ sample_retries = 0
    /\ sample_faults \in SampleFaults
    /\ sample_reads = <<>>
    /\ reservoir_pending = <<>>
    /\ reservoir_entries = <<>>
    /\ reservoir = {}
    /\ WindowIdle
    /\ CliIdle
    /\ PoolIdle

ReservoirNext == ReservoirStart \/ ReservoirList \/ ReservoirEntry \/ ReservoirReturn

SpecReservoir == ReservoirInit /\ [][ReservoirNext]_vars

\* The files of the heap.
ReservoirFiles == {x.f : x \in reservoir}

\* C26: after any number of eligible files with their keys, the reservoir
\* holds min(n, max_files) of them and never more than max_files; no file
\* left out has a larger key than a file kept; and an empty file, or with
\* skip_root_files a file of the sampled root, is never in it.
C26_BoundedReservoir ==
    /\ Cardinality(reservoir) <= Max(0, sample_call.max_files)
    /\ Cardinality(reservoir) = Min(Len(weighed), Max(0, sample_call.max_files))
    /\ Cardinality(ReservoirFiles) = Cardinality(reservoir)
    /\ \A x \in reservoir : \E i \in 1..Len(weighed) : weighed[i] = x
    /\ \A x \in reservoir : \A i \in 1..Len(weighed) :
          weighed[i] \notin reservoir => weighed[i].key <= x.key
    /\ \A x \in reservoir :
          /\ x.f.size > 0
          /\ ~(sample_call.skip_root_files /\ x.f.at = "root")

C26_Witness ==
    /\ pc = "reservoir_done"
    /\ sample_call.max_files = 2
    /\ Len(weighed) = 3
    /\ weighed[1].key = 1 /\ weighed[2].key = 2 /\ weighed[3].key = 3
    /\ weighed[1] \notin reservoir
    /\ Cardinality(reservoir) = 2

\* The heap step by step ends with a choice of files and a
\* root_files_skipped that sample_directory_entropy is modelled with.
ReservoirAgrees ==
    pc = "reservoir_done" =>
        /\ ReservoirFiles \in _reservoir_sample_files(sample_tree, sample_call)
        /\ sample_call.max_files > 0 =>
              (root_files_skipped <=> /\ sample_call.skip_root_files
                                      /\ Len(sample_tree.root) > 0
                                      /\ Listable("root"))

\* ------------------------------------------------------ the sampler's budget
\* The bytes read from the files before the i-th of the loop.
ReadBefore(i) == SumReads(SubSeq(sample_reads, 1, i - 1), "sampled_bytes")

\* per_file_budget of the i-th file of the loop.
PerFileBudget(i) == Min(sample_call.chunk_size, sample_call.max_bytes - ReadBefore(i))

\* Per-file budgets around the places where the window changes.
WindowBudgets ==
    (1..12) \cup {TARGET_WINDOW_SIZE - 1, TARGET_WINDOW_SIZE, TARGET_WINDOW_SIZE + 1}
    \cup {3 * TARGET_WINDOW_SIZE - 1, 3 * TARGET_WINDOW_SIZE, 3 * TARGET_WINDOW_SIZE + 1}
    \cup {300, 1000, 65536, 4 * 1024 * 1024}

\* The window of a budget is between 1 and the target, and three of them
\* fit a budget of 3 or more.
WindowFits(byte_budget) ==
    LET w == _derive_window_size(byte_budget)
    IN /\ 1 <= w
       /\ w <= TARGET_WINDOW_SIZE
       /\ byte_budget >= MAX_SAMPLE_WINDOWS => MAX_SAMPLE_WINDOWS * w <= byte_budget

\* C27: in a call with max_bytes >= 1 and chunk_size >= 1 the sampled bytes
\* never exceed max_bytes; the bytes read from a file never exceed
\* min(chunk_size, budget left); a file is read only while budget is left;
\* and the window of every per-file budget is between 1 and 16384 with
\* three windows inside a budget of 3 or more.
C27_ByteBudget ==
    (sample_call.max_bytes >= 1 /\ sample_call.chunk_size >= 1) =>
        /\ sample_bytes <= sample_call.max_bytes
        /\ pc = "sample_done" => sample_result[1].sampled_bytes <= sample_call.max_bytes
        /\ \A i \in 1..Len(sample_reads) :
              /\ ReadBefore(i) < sample_call.max_bytes
              /\ sample_reads[i].sampled_bytes <= PerFileBudget(i)
              /\ WindowFits(PerFileBudget(i))
        /\ \A byte_budget \in WindowBudgets : WindowFits(byte_budget)

C27_Witness ==
    /\ pc = "sample_done"
    /\ sample_call.max_bytes = 1000
    /\ sample_call.chunk_size = 65536
    /\ Len(sample_list) = 3
    /\ sample_index = 2
    /\ sample_reads[1].sampled_bytes = 999
    /\ sample_reads[2].sampled_bytes = 1
    /\ sample_result[1].sampled_bytes = 1000

\* -------------------------------- entropy_dry_run: the projection's shares
\* The share of each record, as the projection loop looks it up.
DryShares == [i \in 1..Len(DryRecords) |-> reportable_totals(DryRecords[i].path)]

\* projected_total before the final max(..., 0), in hundredths of a byte.
DryProjectedTotal ==
    100 * total_bytes(base_dir)
    - SumSeq([i \in 1..Len(DryRecords) |-> projected_saving(DryRecords[i])])

\* entropy_dry_run came to its end through the report, not through one of
\* its early returns.
DryReported == pc = "done" /\ Len(ordered_dirs) > 0

\* A sampled directory lies below a directory that was walked into but not
\* sampled, which in turn lies below a sampled one.
SampledBelowUnsampled ==
    \E upper \in sampled_paths : \E lower \in sampled_paths :
       \E i \in 1..Len(children_map[upper]) :
          LET between == children_map[upper][i]
          IN /\ between \notin sampled_paths
             /\ between # lower
             /\ IsUnder(lower, between)

\* C30: at the end of entropy_dry_run the shares of the sampled directories
\* add up to at most the base directory's total bytes, so that no file's
\* bytes are in two shares, and the projection is within 0 and the
\* projected original size before it is clamped at 0.
C30_SharesNeverOverlap ==
    DryReported =>
       /\ SumSeq(DryShares) <= total_bytes(base_dir)
       /\ DryProjectedTotal >= 0
       /\ DryProjectedTotal <= 100 * total_bytes(base_dir)

\* What holds of the projection: with the clamp the reported size is within
\* 0 and the original size, and the shares add up to at most the total
\* whenever no sampled directory lies below an unsampled child of another.
ProjectionWithinBounds ==
    DryReported =>
       /\ entropy_projected_compressed_bytes >= 0
       /\ entropy_projected_compressed_bytes <= entropy_projected_original_bytes
       /\ entropy_projected_original_bytes = total_bytes(base_dir)
       /\ ~SampledBelowUnsampled => /\ SumSeq(DryShares) <= total_bytes(base_dir)
                                    /\ DryProjectedTotal >= 0

ProjectionWithinBounds_Witness ==
    /\ DryReported
    /\ Len(raw_samples) >= 2
    /\ ~SampledBelowUnsampled
    /\ SumSeq(DryShares) = total_bytes(base_dir)
    /\ entropy_projected_compressed_bytes > 0
    /\ entropy_projected_compressed_bytes < entropy_projected_original_bytes

\* ------------------------------------- entropy.py: the retry with the root
\* How many steps a call can still take: the files left in the loop, the
\* stage it is at, and, above both, the one retry a call that passes over
\* the root's files has left.
SampleRank ==
    LET tree_files == Len(sample_tree.root) + Len(sample_tree.sub)
    IN IF pc = "sample_done" THEN 0
       ELSE (IF sample_call.skip_root_files THEN tree_files + 3 ELSE 0)
            + (IF pc = "sample_start" THEN tree_files + 2
               ELSE (Len(sample_list) - sample_index) + 1)

\* The call returned without a sample although it never retried.
ReturnedEmptyUnretried ==
    /\ pc = "sample_done"
    /\ sample_call.max_files > 0
    /\ sample_call.max_bytes > 0
    /\ sample_call.skip_root_files
    /\ sample_result[1].sampled_bytes = 0

WindowFileSizes ==
    (0..40) \cup {TARGET_WINDOW_SIZE, 2 * TARGET_WINDOW_SIZE, 2 * TARGET_WINDOW_SIZE + 1,
                  3 * TARGET_WINDOW_SIZE, 4 * TARGET_WINDOW_SIZE + 1}

WindowSizes == (0..16) \cup {TARGET_WINDOW_SIZE}

\* A call of _plan_sample_windows(file_size, window_size).
PlanWindows ==
    /\ pc = "windows_start"
    /\ windows_planned' = _plan_sample_windows(window_call.file_size, window_call.window_size)
    /\ pc' = "windows_done"
    /\ UNCHANGED <<env_vars, min_savings_percent, iter_vars, directory_skips, scan_stats_vars,
                   entropy_stats_vars, entry, cli_vars, pool_vars, scan_vars, candidates,
                   plan, filter_vars, dry_vars, sample_tree, sample_call, sample_list,
                   sample_index, root_files_skipped, sample_count, sample_bytes,
                   weighted_entropy, sample_result, sample_retries, sample_faults,
                   sample_reads, reservoir_vars, window_call>>

WindowInit ==
    /\ pc = "windows_start"
    /\ system_dirs = {}
    /\ unreadable = {}
    /\ has_callback = FALSE
    /\ collect_entropy = FALSE
    /\ min_savings_percent = 0
    /\ directory_skips = <<>>
    /\ entry = "_plan_sample_windows"
    /\ verbosity = 0
    /\ IterIdle
    /\ file_skips = <<>>
    /\ skipped_files = 0
    /\ errors = <<>>
    /\ total_original_size = 0
    /\ entropy_samples = <<>>
    /\ entropy_directories_sampled = 0
    /\ entropy_directories_below_threshold = 0
    /\ files = <<>>
    /\ processed = 0
    /\ ordered_candidates = <<>>
    /\ candidates = <<>>
    /\ plan = <<>>
    /\ directories = {}
    /\ root_skip_record = <<>>
    /\ NoEntropyCalls
    /\ evaluated = {}
    /\ skip_results = <<>>
    /\ sample_results = <<>>
    /\ skipped_directories = <<>>
    /\ eligible_directories = {base_dir}
    /\ eligible_files_found = 0
    /\ direct_file_bytes = [d \in Dirs |-> 0]
    /\ ordered_dirs = <<>>
    /\ children_map = [d \in Dirs |-> <<>>]
    /\ directories_to_sample = <<>>
    /\ raw_samples = <<>>
    /\ entropy_projected_original_bytes = 0
    /\ entropy_projected_compressed_bytes = 0
    /\ sample_tree = [root |-> <<>>, sub |-> <<>>]
    /\ sample_call = [max_files |-> 50, chunk_size |-> 65536, max_bytes |-> 4194304,
                      skip_root_files |-> FALSE, include_subdirectories |-> TRUE]
    /\ sample_list = <<>>
    /\ sample_index = 0
    /\ root_files_skipped = FALSE
    /\ sample_count = 0
    /\ sample_bytes = 0
    /\ weighed = <<>>
    /\ weighted_entropy = 0
    /\ sample_result = <<>>
    /\ sample_retries = 0
    /\ sample_faults = [listing |-> {}, stat |-> {}]
    /\ sample_reads = <<>>
    /\ reservoir_pending = <<>>
    /\ reservoir_entries = <<>>
    /\ reservoir = {}
    /\ window_call \in [file_size : WindowFileSizes, window_size : WindowSizes]
    /\ windows_planned = <<>>
    /\ CliIdle
    /\ PoolIdle

WindowNext == PlanWindows

SpecWindows == WindowInit /\ [][WindowNext]_vars

\* The end of a window.
WindowEnd(window) == window[1] + window[2]

\* C28: for a file of at least one byte and a window of at least one byte
\* _plan_sample_windows returns one to three windows, no two the same, each
\* inside the file and at least one byte long; the first starts at offset
\* 0, and when there are several the last ends at the end of the file.
C28_SampleWindows ==
    (/\ pc = "windows_done"
     /\ window_call.file_size >= 1
     /\ window_call.window_size >= 1) =>
        /\ Len(windows_planned) \in 1..MAX_SAMPLE_WINDOWS
        /\ \A i, j \in 1..Len(windows_planned) :
              windows_planned[i] = windows_planned[j] => i = j
        /\ \A i \in 1..Len(windows_planned) :
              /\ windows_planned[i][1] >= 0
              /\ windows_planned[i][2] >= 1
              /\ WindowEnd(windows_planned[i]) <= window_call.file_size
        /\ windows_planned[1][1] = 0
        /\ Len(windows_planned) > 1 =>
              WindowEnd(windows_planned[Len(windows_planned)]) = window_call.file_size

C28_Witness ==
    /\ pc = "windows_done"
    /\ window_call = [file_size |-> 4 * TARGET_WINDOW_SIZE + 1, window_size |-> TARGET_WINDOW_SIZE]
    /\ windows_planned = << <<0, TARGET_WINDOW_SIZE>>,
                            <<24576, TARGET_WINDOW_SIZE>>,
                            <<3 * TARGET_WINDOW_SIZE + 1, TARGET_WINDOW_SIZE>> >>

====
